---- MODULE Spec2Model ----
(***************************************************************************)
(* State-machine model of the MyPass password manager core:                *)
(*   - SessionManager            (src/js/patterns/Singleton.js)            *)
(*   - PasswordRecoveryManager   (src/js/patterns/Mediator.js, the chain   *)
(*     of responsibility part)                                             *)
(*   - the 'users' object store  (src/js/database.js)                      *)
(*   - the recovery wiring of    (src/js/app.js)                           *)
(* Strings that the code transforms (passwords, answers, digests) are      *)
(* sequences of character codes; strings the code only compares (emails,   *)
(* question texts, clipboard text) are TLA+ strings.  Time is Date.now()   *)
(* in milliseconds.                                                        *)
(***************************************************************************)
EXTENDS Integers, Sequences, FiniteSets, TLC

\* ------------------------------------------------------------------------
\* Bounds of the model (not program constants)
\* ------------------------------------------------------------------------
\* at most this many IndexedDB requests are in flight
MaxQueue == 1

\* at most this many lookups of overlapping startRecovery calls are in flight
MaxOverlap == 2

\* at most this many vault items are stored
MaxItems == 2

\* the clock of IdleSpec advances by this fraction of an inactivity-check period
IdleStepsPerPeriod == 2
\* horizon of the session specification, in inactivity-check periods
SessionHorizonIntervals == 7
\* clock step of the recovery specification, in minutes
RecoveryStepMinutes == 5
\* horizon of the recovery specification, in minutes
RecoveryHorizonMinutes == 20
\* at most this many lockout timers are pending at once
MaxLockoutTimers == 2

\* ------------------------------------------------------------------------
\* Program constants
\* ------------------------------------------------------------------------
\* setInterval period of the inactivity check (ms)
CheckIntervalMs == 10000
\* one minute in ms: the factor of "/ 1000 / 60" and "* 60 * 1000"
MsPerMinute == 60000
\* lockout duration of the recovery manager, in minutes (15 * 60 * 1000 ms)
LockoutMinutes == 15
\* this.maxAttempts
maxAttempts == 3
\* settings written by register()
RegisterAutoLockMinutes == 1
RegisterClipboardClearMinutes == 1
\* the "|| 5" and "|| 1" defaults of login()
LoginDefaultAutoLockMinutes == 5
LoginDefaultClipboardClearMinutes == 1
\* a null timer handle (this.lockTimer = null); real handles are positive
NoTimer == 0

\* ------------------------------------------------------------------------
\* String helpers (strings are sequences of character codes)
\* ------------------------------------------------------------------------
\* "mypass_salt"
Salt == <<109, 121, 112, 97, 115, 115, 95, 115, 97, 108, 116>>

\* ToInt32 of (31 * h + c): "hash = ((hash << 5) - hash) + char; hash = hash & hash"
\* computed on 16-bit halves so that the 32-bit wrap-around is kept.
FoldStep(h, c) ==
    LET lo  == h % 65536
        hi  == h \div 65536
        l   == 31 * lo + c
        lo2 == l % 65536
        hh  == (31 * hi + (l \div 65536)) % 65536
        hi2 == IF hh >= 32768 THEN hh - 65536 ELSE hh
    IN  hi2 * 65536 + lo2

\* the for-loop of hashPassword over the first n characters
RECURSIVE FoldHash(_, _)
FoldHash(s, n) == IF n = 0 THEN 0 ELSE FoldStep(FoldHash(s, n - 1), s[n])

\* decimal digits of a natural number
RECURSIVE Digits(_)
Digits(n) == IF n < 10 THEN <<48 + n>> ELSE Digits(n \div 10) \o <<48 + (n % 10)>>

\* Number.prototype.toString() of an integer
NumToString(n) == IF n < 0 THEN <<45>> \o Digits(0 - n) ELSE Digits(n)

\* the base64 alphabet
B64Code(i) ==
    IF i < 26 THEN 65 + i
    ELSE IF i < 52 THEN 71 + i
    ELSE IF i < 62 THEN i - 4
    ELSE IF i = 62 THEN 43 ELSE 47

\* btoa(): base64 of a string of 8-bit characters, '=' padded
RECURSIVE btoa(_)
btoa(s) ==
    IF Len(s) = 0 THEN <<>>
    ELSE LET b2 == IF Len(s) >= 2 THEN s[2] ELSE 0
             b3 == IF Len(s) >= 3 THEN s[3] ELSE 0
             n  == s[1] * 65536 + b2 * 256 + b3
             c3 == IF Len(s) >= 2 THEN B64Code((n \div 64) % 64) ELSE 61
             c4 == IF Len(s) >= 3 THEN B64Code(n % 64) ELSE 61
         IN  <<B64Code(n \div 262144), B64Code((n \div 4096) % 64), c3, c4>>
                 \o btoa(SubSeq(s, 4, Len(s)))

\* String.prototype.toLowerCase on ASCII
toLowerCase(s) == [i \in 1..Len(s) |-> IF s[i] >= 65 /\ s[i] <= 90 THEN s[i] + 32 ELSE s[i]]

\* white space removed by String.prototype.trim (ASCII part)
WhiteSpace == {9, 10, 11, 12, 13, 32}

\* String.prototype.trim
trim(s) ==
    LET keep == {i \in 1..Len(s) : s[i] \notin WhiteSpace}
    IN  IF keep = {} THEN <<>>
        ELSE LET a == CHOOSE i \in keep : \A j \in keep : i <= j
                 b == CHOOSE i \in keep : \A j \in keep : i >= j
             IN  SubSeq(s, a, b)

\* ------------------------------------------------------------------------
\* The strings of the model's inputs
\* ------------------------------------------------------------------------
\* "Aa" and "BB" have the same length and the same fold hash (2112); "Ab" differs
Aa == <<65, 97>>
BB == <<66, 66>>
Ab == <<65, 98>>
Passwords == {Aa, BB, Ab}

\* "Rex", " rEX ", "Max"
Rex == <<82, 101, 120>>
RexVariant == <<32, 114, 69, 88, 32>>
Max == <<77, 97, 120>>

\* the strings that reach a hash function: passwords as typed, answers normalized
HashedStrings == Passwords \cup {trim(toLowerCase(a)) : a \in {Rex, RexVariant, Max, <<>>}}

\* the body of SessionManager.hashPassword
hashPasswordBody(password) ==
    btoa(NumToString(FoldHash(password, Len(password)))
            \o NumToString(Len(password)) \o Salt)

\* hashPassword on HashedStrings, evaluated once
hashPasswordTable == [x \in HashedStrings |-> hashPasswordBody(x)]

\* SessionManager.hashPassword
hashPassword(password) ==
    IF password \in HashedStrings THEN hashPasswordTable[password] ELSE hashPasswordBody(password)

\* the body of the hash function app.js hands to recoveryManager.setHashFunction
recoveryHashBody(str) ==
    btoa(NumToString(FoldHash(str, Len(str))) \o NumToString(Len(str)) \o Salt)

\* the recovery hash function on HashedStrings, evaluated once
recoveryHashTable == [x \in HashedStrings |-> recoveryHashBody(x)]

\* the hash function app.js hands to recoveryManager.setHashFunction
recoveryHashFunction(str) ==
    IF str \in HashedStrings THEN recoveryHashTable[str] ELSE recoveryHashBody(str)

Min(S) == CHOOSE x \in S : \A y \in S : x <= y

\* ------------------------------------------------------------------------
\* State
\* ------------------------------------------------------------------------
VARIABLES
    users,                  \* database 'users' object store: email -> user record
    dbQueue,                \* IndexedDB requests issued and not yet completed, in order
    user,                   \* SessionManager.user (NoUser for null)
    isAuthenticated,        \* SessionManager.isAuthenticated
    lastActivity,           \* SessionManager.lastActivity
    autoLockMinutes,        \* SessionManager.autoLockMinutes
    lockTimer,              \* SessionManager.lockTimer
    clipboardTimer,         \* SessionManager.clipboardTimer
    clipboardClearMinutes,  \* SessionManager.clipboardClearMinutes
    chain,                  \* PasswordRecoveryManager.chain: the handlers, first to last
    questions,              \* PasswordRecoveryManager.questions
    attempts,               \* PasswordRecoveryManager.attempts
    locked,                 \* PasswordRecoveryManager.locked
    recoveryEmail,          \* app.js: let recoveryEmail
    now,                    \* Date.now()
    timers,                 \* timers scheduled with setInterval / setTimeout
    clipboard,              \* content of the system clipboard
    dispatched,             \* number of 'session-locked' events dispatched
    last,                   \* history: the last completed operation and its outcome
    flow,                   \* history: failed verify calls of the current recovery flow
    copied,                 \* history: the last copyToClipboard and the clears since
    proxy,                  \* a SensitiveDataProxy: realSubject.value, type, masked
    seen,                   \* history: the last call on the proxy and what it returned
    fault,                  \* history: the last fault of a collaborator and its outcome
    vault,                  \* database 'vault' object store: id -> vault item
    vaultLast               \* history: the last VaultManager call and its outcome

vars == <<users, dbQueue, user, isAuthenticated, lastActivity, autoLockMinutes,
          lockTimer, clipboardTimer, clipboardClearMinutes, chain, questions,
          attempts, locked, recoveryEmail, now, timers, clipboard, dispatched,
          last, flow, copied, proxy, seen, fault, vault, vaultLast>>

proxyVars == <<proxy, seen>>
vaultVars == <<vault, vaultLast>>
sessionVars == <<user, isAuthenticated, lastActivity, autoLockMinutes, lockTimer,
                 clipboardTimer, clipboardClearMinutes>>
recoveryVars == <<chain, questions, attempts, locked>>

\* null / undefined user.  The field "registered" of a user record is history
\* (the plain inputs the record was built from); no modelled code reads it.
NoUser ==
    [email |-> "", masterPassword |-> <<>>, securityQuestions |-> <<>>,
     settings |-> [autoLockMinutes |-> 0, clipboardClearMinutes |-> 0],
     registered |-> [password |-> <<>>, answers |-> <<>>]]

\* a request handed to the database
Request(req, email, cont, secret, qs, rec) ==
    [req |-> req, email |-> email, cont |-> cont, secret |-> secret,
     questions |-> qs, rec |-> rec]

\* database.getUser: the record stored under email, or undefined
getUser(email) == IF email \in DOMAIN users THEN users[email] ELSE NoUser

\* database.saveUser: store.put(user), keyed by user.email
saveUser(rec) == [e \in DOMAIN users \cup {rec.email} |-> IF e = rec.email THEN rec ELSE users[e]]

\* the outcome record of an operation, with the facts of the state it started in
Last(op, res) ==
    [op |-> op, res |-> res, email |-> "", secret |-> <<>>, answers |-> <<>>,
     failedAt |-> 0, evaluated |-> {}, attemptsLeft |-> 0,
     preTimer |-> lockTimer # NoTimer, preLocked |-> locked]

\* a fresh timer handle: the least positive one neither scheduled nor held
NewTimerId(ts, held) ==
    Min({i \in 1..(Cardinality(ts) + Cardinality(held) + 1) :
            i \notin {t.id : t \in ts} \cup held})

\* ------------------------------------------------------------------------
\* SessionManager
\* ------------------------------------------------------------------------
\* the user object register() builds
NewUser(email, masterPassword, securityQuestions) ==
    [email |-> email,
     masterPassword |-> hashPassword(masterPassword),
     securityQuestions |->
        [i \in 1..Len(securityQuestions) |->
            [question |-> securityQuestions[i].question,
             answer |-> hashPassword(trim(toLowerCase(securityQuestions[i].answer)))]],
     settings |-> [autoLockMinutes |-> RegisterAutoLockMinutes,
                   clipboardClearMinutes |-> RegisterClipboardClearMinutes],
     registered |-> [password |-> masterPassword,
                     answers |-> [i \in 1..Len(securityQuestions) |-> securityQuestions[i].answer]]]

\* register(), up to "await database.getUser(email)", called while requests
\* of earlier calls may be in flight (a form submitted twice)
registerOverlapping(email, masterPassword, securityQuestions) ==
    /\ Len(dbQueue) < MaxOverlap
    /\ dbQueue' = Append(dbQueue, Request("getUser", email, "register", masterPassword,
                                          securityQuestions, NoUser))
    /\ UNCHANGED <<users, sessionVars, recoveryVars, recoveryEmail, now, timers,
                   clipboard, dispatched, last, flow, copied, proxyVars, vaultVars, fault>>

\* register(), up to "await database.getUser(email)"
register(email, masterPassword, securityQuestions) ==
    /\ Len(dbQueue) < MaxQueue
    /\ dbQueue' = Append(dbQueue, Request("getUser", email, "register", masterPassword,
                                          securityQuestions, NoUser))
    /\ UNCHANGED <<users, sessionVars, recoveryVars, recoveryEmail, now, timers,
                   clipboard, dispatched, last, flow, copied, proxyVars, vaultVars, fault>>

\* registerLookup without the check for an existing user
registerLookupNoCheck ==
    /\ dbQueue # <<>>
    /\ Head(dbQueue).cont = "register"
    /\ LET r == Head(dbQueue) IN
        /\ dbQueue' = Append(Tail(dbQueue),
                    Request("saveUser", r.email, "registerSaved", <<>>, <<>>,
                            NewUser(r.email, r.secret, r.questions)))
        /\ last' = last
    /\ UNCHANGED <<users, sessionVars, recoveryVars, recoveryEmail, now, timers,
                   clipboard, dispatched, flow, copied, proxyVars, vaultVars, fault>>

\* register(), from the completion of getUser up to "await database.saveUser(user)"
registerLookup ==
    /\ dbQueue # <<>>
    /\ Head(dbQueue).cont = "register"
    /\ LET r == Head(dbQueue) IN
        IF getUser(r.email) # NoUser
        THEN /\ dbQueue' = Tail(dbQueue)
             /\ last' = [Last("register", "DuplicateAccount") EXCEPT !.email = r.email,
                                                                      !.secret = r.secret]
        ELSE /\ dbQueue' = Append(Tail(dbQueue),
                    Request("saveUser", r.email, "registerSaved", <<>>, <<>>,
                            NewUser(r.email, r.secret, r.questions)))
             /\ last' = last
    /\ UNCHANGED <<users, sessionVars, recoveryVars, recoveryEmail, now, timers,
                   clipboard, dispatched, flow, copied, proxyVars, vaultVars, fault>>

\* registerSaved that binds and authenticates the new user
registerSavedAuthenticating ==
    /\ dbQueue # <<>>
    /\ Head(dbQueue).cont = "registerSaved"
    /\ users' = saveUser(Head(dbQueue).rec)
    /\ dbQueue' = Tail(dbQueue)
    /\ user' = Head(dbQueue).rec
    /\ isAuthenticated' = TRUE
    /\ last' = [Last("register", "ok") EXCEPT !.email = Head(dbQueue).email]
    /\ UNCHANGED <<lastActivity, autoLockMinutes, lockTimer, clipboardTimer,
                   clipboardClearMinutes, recoveryVars, recoveryEmail, now, timers,
                   clipboard, dispatched, flow, copied, proxyVars, vaultVars, fault>>

\* register(), from the completion of saveUser to "return true"
registerSaved ==
    /\ dbQueue # <<>>
    /\ Head(dbQueue).cont = "registerSaved"
    /\ users' = saveUser(Head(dbQueue).rec)
    /\ dbQueue' = Tail(dbQueue)
    /\ last' = [Last("register", "ok") EXCEPT !.email = Head(dbQueue).email]
    /\ UNCHANGED <<sessionVars, recoveryVars, recoveryEmail, now, timers,
                   clipboard, dispatched, flow, copied, proxyVars, vaultVars, fault>>

\* stopAutoLockTimer that drops the handle and forgets clearInterval
stopAutoLockTimerKeep(ts, lt) == [timers |-> ts, lockTimer |-> NoTimer]

\* stopAutoLockTimer on the scheduled timers ts and the handle lt
stopAutoLockTimer(ts, lt) ==
    IF lt # NoTimer
    THEN [timers |-> {t \in ts : t.id # lt}, lockTimer |-> NoTimer]
    ELSE [timers |-> ts, lockTimer |-> lt]

\* startAutoLockTimer without the call of stopAutoLockTimer
startAutoLockTimerNoStop(ts, lt, held) ==
    LET id == NewTimerId(ts, held \cup {lt})
    IN  [timers |-> ts \cup {[id |-> id, kind |-> "autoLock", due |-> now + CheckIntervalMs]},
         lockTimer |-> id]

\* startAutoLockTimer: stop the prior timer, then setInterval(..., 10000)
startAutoLockTimer(ts, lt, held) ==
    LET s  == stopAutoLockTimer(ts, lt)
        id == NewTimerId(s.timers, held)
    IN  [timers |-> s.timers \cup {[id |-> id, kind |-> "autoLock", due |-> now + CheckIntervalMs]},
         lockTimer |-> id]

\* "x || d" on a number
OrDefault(x, d) == IF x # 0 THEN x ELSE d

\* login(), up to "await database.getUser(email)"
login(email, masterPassword) ==
    /\ Len(dbQueue) < MaxQueue
    /\ dbQueue' = Append(dbQueue, Request("getUser", email, "login", masterPassword, <<>>, NoUser))
    /\ UNCHANGED <<users, sessionVars, recoveryVars, recoveryEmail, now, timers,
                   clipboard, dispatched, last, flow, copied, proxyVars, vaultVars, fault>>

\* loginLookup that ends the current session when the login fails
loginLookupDroppingSession ==
    /\ dbQueue # <<>>
    /\ Head(dbQueue).cont = "login"
    /\ dbQueue' = Tail(dbQueue)
    /\ LET r == Head(dbQueue)
           u == getUser(r.email)
           l == [Last("login", "ok") EXCEPT !.email = r.email, !.secret = r.secret]
       IN
        IF u = NoUser \/ u.masterPassword # hashPassword(r.secret)
        THEN /\ last' = [l EXCEPT !.res = IF u = NoUser THEN "AccountNotFound"
                                          ELSE "InvalidCredential"]
             /\ user' = NoUser
             /\ isAuthenticated' = FALSE
             /\ UNCHANGED <<lastActivity, autoLockMinutes, lockTimer, clipboardTimer,
                            clipboardClearMinutes, timers>>
        ELSE LET s == startAutoLockTimer(timers, lockTimer, {clipboardTimer}) IN
             /\ user' = u
             /\ isAuthenticated' = TRUE
             /\ lastActivity' = now
             /\ autoLockMinutes' = OrDefault(u.settings.autoLockMinutes, LoginDefaultAutoLockMinutes)
             /\ clipboardClearMinutes' =
                    OrDefault(u.settings.clipboardClearMinutes, LoginDefaultClipboardClearMinutes)
             /\ timers' = s.timers
             /\ lockTimer' = s.lockTimer
             /\ last' = l
             /\ UNCHANGED clipboardTimer
    /\ UNCHANGED <<users, recoveryVars, recoveryEmail, now, clipboard, dispatched, flow, copied, proxyVars, vaultVars, fault>>

\* loginLookup without the comparison of the password digests
loginLookupNoCompare ==
    /\ dbQueue # <<>>
    /\ Head(dbQueue).cont = "login"
    /\ dbQueue' = Tail(dbQueue)
    /\ LET r == Head(dbQueue)
           u == getUser(r.email)
           l == [Last("login", "ok") EXCEPT !.email = r.email, !.secret = r.secret]
       IN
        IF u = NoUser
        THEN /\ last' = [l EXCEPT !.res = "AccountNotFound"]
             /\ UNCHANGED <<sessionVars, timers>>
        ELSE LET s == startAutoLockTimer(timers, lockTimer, {clipboardTimer}) IN
             /\ user' = u
             /\ isAuthenticated' = TRUE
             /\ lastActivity' = now
             /\ autoLockMinutes' = OrDefault(u.settings.autoLockMinutes, LoginDefaultAutoLockMinutes)
             /\ clipboardClearMinutes' =
                    OrDefault(u.settings.clipboardClearMinutes, LoginDefaultClipboardClearMinutes)
             /\ timers' = s.timers
             /\ lockTimer' = s.lockTimer
             /\ last' = l
             /\ UNCHANGED clipboardTimer
    /\ UNCHANGED <<users, recoveryVars, recoveryEmail, now, clipboard, dispatched, flow, copied, proxyVars, vaultVars, fault>>

\* login(), from the completion of getUser to its end
loginLookup ==
    /\ dbQueue # <<>>
    /\ Head(dbQueue).cont = "login"
    /\ dbQueue' = Tail(dbQueue)
    /\ LET r == Head(dbQueue)
           u == getUser(r.email)
           l == [Last("login", "ok") EXCEPT !.email = r.email, !.secret = r.secret]
       IN
        IF u = NoUser
        THEN /\ last' = [l EXCEPT !.res = "AccountNotFound"]
             /\ UNCHANGED <<sessionVars, timers>>
        ELSE IF u.masterPassword # hashPassword(r.secret)
        THEN /\ last' = [l EXCEPT !.res = "InvalidCredential"]
             /\ UNCHANGED <<sessionVars, timers>>
        ELSE LET s == startAutoLockTimer(timers, lockTimer, {clipboardTimer}) IN
             /\ user' = u
             /\ isAuthenticated' = TRUE
             /\ lastActivity' = now
             /\ autoLockMinutes' = OrDefault(u.settings.autoLockMinutes, LoginDefaultAutoLockMinutes)
             /\ clipboardClearMinutes' =
                    OrDefault(u.settings.clipboardClearMinutes, LoginDefaultClipboardClearMinutes)
             /\ timers' = s.timers
             /\ lockTimer' = s.lockTimer
             /\ last' = l
             /\ UNCHANGED clipboardTimer
    /\ UNCHANGED <<users, recoveryVars, recoveryEmail, now, clipboard, dispatched, flow, copied, proxyVars, vaultVars, fault>>

\* clearClipboard that drops the handle and forgets clearTimeout
clearClipboardKeepTimer(ts, ct) ==
    [timers |-> ts, clipboardTimer |-> NoTimer, clipboard |-> ""]

\* clearClipboard on the timers ts and the handle ct: writeText(''), clearTimeout
clearClipboard(ts, ct) ==
    IF ct # NoTimer
    THEN [timers |-> {t \in ts : t.id # ct}, clipboardTimer |-> NoTimer, clipboard |-> ""]
    ELSE [timers |-> ts, clipboardTimer |-> ct, clipboard |-> ""]

\* logout()
logout ==
    LET s == stopAutoLockTimer(timers, lockTimer)
        c == clearClipboard(s.timers, clipboardTimer)
    IN  /\ user' = NoUser
        /\ isAuthenticated' = FALSE
        /\ lockTimer' = s.lockTimer
        /\ timers' = c.timers
        /\ clipboardTimer' = c.clipboardTimer
        /\ clipboard' = c.clipboard
        /\ copied' = [copied EXCEPT !.loggedOut = TRUE]
        /\ last' = Last("logout", "ok")
        /\ UNCHANGED <<users, dbQueue, lastActivity, autoLockMinutes, clipboardClearMinutes,
                       recoveryVars, recoveryEmail, now, dispatched, flow, proxyVars, vaultVars, fault>>

\* lock that dispatches 'session-locked' itself
lockDispatching ==
    LET s == stopAutoLockTimer(timers, lockTimer)
    IN  /\ isAuthenticated' = FALSE
        /\ lockTimer' = s.lockTimer
        /\ timers' = s.timers
        /\ dispatched' = dispatched + 1
        /\ last' = Last("lock", "ok")
        /\ UNCHANGED <<users, dbQueue, user, lastActivity, autoLockMinutes, clipboardTimer,
                       clipboardClearMinutes, recoveryVars, recoveryEmail, now, clipboard,
                       flow, copied, proxyVars, vaultVars, fault>>

\* lock that also drops the bound Account, as logout does
lockDroppingUser ==
    LET s == stopAutoLockTimer(timers, lockTimer)
    IN  /\ isAuthenticated' = FALSE
        /\ user' = NoUser
        /\ lockTimer' = s.lockTimer
        /\ timers' = s.timers
        /\ last' = Last("lock", "ok")
        /\ UNCHANGED <<users, dbQueue, lastActivity, autoLockMinutes, clipboardTimer,
                       clipboardClearMinutes, recoveryVars, recoveryEmail, now, clipboard,
                       dispatched, flow, copied, proxyVars, vaultVars, fault>>

\* lock that leaves the inactivity timer scheduled
lockKeepingTimer ==
    /\ isAuthenticated' = FALSE
    /\ last' = Last("lock", "ok")
    /\ UNCHANGED <<users, dbQueue, user, lastActivity, autoLockMinutes, lockTimer, timers,
                   clipboardTimer, clipboardClearMinutes, recoveryVars, recoveryEmail, now,
                   clipboard, dispatched, flow, copied, proxyVars, vaultVars, fault>>

\* lock()
lock ==
    LET s == stopAutoLockTimer(timers, lockTimer)
    IN  /\ isAuthenticated' = FALSE
        /\ lockTimer' = s.lockTimer
        /\ timers' = s.timers
        /\ last' = Last("lock", "ok")
        /\ UNCHANGED <<users, dbQueue, user, lastActivity, autoLockMinutes, clipboardTimer,
                       clipboardClearMinutes, recoveryVars, recoveryEmail, now, clipboard,
                       dispatched, flow, copied, proxyVars, vaultVars, fault>>

\* unlock without the comparison of the password digests
unlockNoCompare(masterPassword) ==
    LET l == [Last("unlock", "ok") EXCEPT !.secret = masterPassword] IN
    /\ IF user = NoUser
       THEN /\ last' = [l EXCEPT !.res = "NoActiveSession"]
            /\ UNCHANGED <<sessionVars, timers>>
       ELSE LET s == startAutoLockTimer(timers, lockTimer, {clipboardTimer}) IN
            /\ isAuthenticated' = TRUE
            /\ lastActivity' = now
            /\ timers' = s.timers
            /\ lockTimer' = s.lockTimer
            /\ last' = l
            /\ UNCHANGED <<user, autoLockMinutes, clipboardTimer, clipboardClearMinutes>>
    /\ UNCHANGED <<users, dbQueue, recoveryVars, recoveryEmail, now, clipboard, dispatched,
                   flow, copied, proxyVars, vaultVars, fault>>

\* unlock that does not stamp the activity time
unlockNoStamp(masterPassword) ==
    LET l == [Last("unlock", "ok") EXCEPT !.secret = masterPassword] IN
    /\ IF user = NoUser
       THEN /\ last' = [l EXCEPT !.res = "NoActiveSession"]
            /\ UNCHANGED <<sessionVars, timers>>
       ELSE IF user.masterPassword # hashPassword(masterPassword)
       THEN /\ last' = [l EXCEPT !.res = "InvalidCredential"]
            /\ UNCHANGED <<sessionVars, timers>>
       ELSE LET s == startAutoLockTimer(timers, lockTimer, {clipboardTimer}) IN
            /\ isAuthenticated' = TRUE
            /\ timers' = s.timers
            /\ lockTimer' = s.lockTimer
            /\ last' = l
            /\ UNCHANGED <<user, lastActivity, autoLockMinutes, clipboardTimer,
                           clipboardClearMinutes>>
    /\ UNCHANGED <<users, dbQueue, recoveryVars, recoveryEmail, now, clipboard, dispatched,
                   flow, copied, proxyVars, vaultVars, fault>>

\* unlock(): no await inside, so it runs to its end in one step
unlock(masterPassword) ==
    LET l == [Last("unlock", "ok") EXCEPT !.secret = masterPassword] IN
    /\ IF user = NoUser
       THEN /\ last' = [l EXCEPT !.res = "NoActiveSession"]
            /\ UNCHANGED <<sessionVars, timers>>
       ELSE IF user.masterPassword # hashPassword(masterPassword)
       THEN /\ last' = [l EXCEPT !.res = "InvalidCredential"]
            /\ UNCHANGED <<sessionVars, timers>>
       ELSE LET s == startAutoLockTimer(timers, lockTimer, {clipboardTimer}) IN
            /\ isAuthenticated' = TRUE
            /\ lastActivity' = now
            /\ timers' = s.timers
            /\ lockTimer' = s.lockTimer
            /\ last' = l
            /\ UNCHANGED <<user, autoLockMinutes, clipboardTimer, clipboardClearMinutes>>
    /\ UNCHANGED <<users, dbQueue, recoveryVars, recoveryEmail, now, clipboard, dispatched,
                   flow, copied, proxyVars, vaultVars, fault>>

\* updateActivity()
updateActivity ==
    /\ lastActivity' = now
    /\ last' = Last("updateActivity", "ok")
    /\ UNCHANGED <<users, dbQueue, user, isAuthenticated, autoLockMinutes, lockTimer,
                   clipboardTimer, clipboardClearMinutes, recoveryVars, recoveryEmail, now,
                   timers, clipboard, dispatched, flow, copied, proxyVars, vaultVars, fault>>

\* the setInterval callback with "inactive > threshold" for "inactive >= threshold"
autoLockCheckStrict(t) ==
    /\ t \in timers
    /\ t.kind = "autoLock"
    /\ t.due <= now
    /\ IF now - lastActivity > autoLockMinutes * MsPerMinute
       THEN LET rearmed == (timers \ {t}) \cup {[t EXCEPT !.due = t.due + CheckIntervalMs]}
                s == stopAutoLockTimer(rearmed, lockTimer)
            IN  /\ isAuthenticated' = FALSE
                /\ lockTimer' = s.lockTimer
                /\ timers' = s.timers
                /\ dispatched' = dispatched + 1
                /\ last' = Last("autoLockCheck", "locked")
       ELSE /\ timers' = (timers \ {t}) \cup {[t EXCEPT !.due = t.due + CheckIntervalMs]}
            /\ last' = Last("autoLockCheck", "idle")
            /\ UNCHANGED <<isAuthenticated, lockTimer, dispatched>>
    /\ UNCHANGED <<users, dbQueue, user, lastActivity, autoLockMinutes, clipboardTimer,
                   clipboardClearMinutes, recoveryVars, recoveryEmail, now, clipboard,
                   flow, copied, proxyVars, vaultVars, fault>>

\* the setInterval callback of startAutoLockTimer, for the due timer t
autoLockCheck(t) ==
    /\ t \in timers
    /\ t.kind = "autoLock"
    /\ t.due <= now
    /\ IF now - lastActivity >= autoLockMinutes * MsPerMinute
       THEN LET rearmed == (timers \ {t}) \cup {[t EXCEPT !.due = t.due + CheckIntervalMs]}
                s == stopAutoLockTimer(rearmed, lockTimer)
            IN  /\ isAuthenticated' = FALSE
                /\ lockTimer' = s.lockTimer
                /\ timers' = s.timers
                /\ dispatched' = dispatched + 1
                /\ last' = Last("autoLockCheck", "locked")
       ELSE /\ timers' = (timers \ {t}) \cup {[t EXCEPT !.due = t.due + CheckIntervalMs]}
            /\ last' = Last("autoLockCheck", "idle")
            /\ UNCHANGED <<isAuthenticated, lockTimer, dispatched>>
    /\ UNCHANGED <<users, dbQueue, user, lastActivity, autoLockMinutes, clipboardTimer,
                   clipboardClearMinutes, recoveryVars, recoveryEmail, now, clipboard,
                   flow, copied, proxyVars, vaultVars, fault>>

\* copyToClipboard without the clearTimeout of the pending timer
copyToClipboardNoClear(text) ==
    LET id == NewTimerId(timers, {lockTimer, clipboardTimer})
        d  == clipboardClearMinutes * MsPerMinute
    IN  /\ clipboard' = text
        /\ timers' = timers \cup {[id |-> id, kind |-> "clipboard", due |-> now + d]}
        /\ clipboardTimer' = id
        /\ copied' = [at |-> now, delay |-> d, replaced |-> clipboardTimer # NoTimer,
                      clears |-> 0, clearedAt |-> -1, loggedOut |-> FALSE]
        /\ last' = Last("copyToClipboard", "ok")
        /\ UNCHANGED <<users, dbQueue, user, isAuthenticated, lastActivity, autoLockMinutes,
                       lockTimer, clipboardClearMinutes, recoveryVars, recoveryEmail, now,
                       dispatched, flow, proxyVars, vaultVars, fault>>

\* copyToClipboard(text)
copyToClipboard(text) ==
    LET ts == IF clipboardTimer # NoTimer THEN {t \in timers : t.id # clipboardTimer} ELSE timers
        id == NewTimerId(ts, {lockTimer})
        d  == clipboardClearMinutes * MsPerMinute
    IN  /\ clipboard' = text
        /\ timers' = ts \cup {[id |-> id, kind |-> "clipboard", due |-> now + d]}
        /\ clipboardTimer' = id
        /\ copied' = [at |-> now, delay |-> d, replaced |-> clipboardTimer # NoTimer,
                      clears |-> 0, clearedAt |-> -1, loggedOut |-> FALSE]
        /\ last' = Last("copyToClipboard", "ok")
        /\ UNCHANGED <<users, dbQueue, user, isAuthenticated, lastActivity, autoLockMinutes,
                       lockTimer, clipboardClearMinutes, recoveryVars, recoveryEmail, now,
                       dispatched, flow, proxyVars, vaultVars, fault>>

\* copyToClipboard(text) when the promise of navigator.clipboard.writeText
\* rejects: the promise is not awaited, the timeout is scheduled and true is
\* returned
copyToClipboardRejected(text) ==
    LET ts == IF clipboardTimer # NoTimer THEN {t \in timers : t.id # clipboardTimer} ELSE timers
        id == NewTimerId(ts, {lockTimer})
        d  == clipboardClearMinutes * MsPerMinute
    IN  /\ timers' = ts \cup {[id |-> id, kind |-> "clipboard", due |-> now + d]}
        /\ clipboardTimer' = id
        /\ copied' = [at |-> now, delay |-> d, replaced |-> clipboardTimer # NoTimer,
                      clears |-> 0, clearedAt |-> -1, loggedOut |-> FALSE]
        /\ last' = Last("copyToClipboard", "ok")
        /\ fault' = [op |-> "copyToClipboard", of |-> "clipboard", outcome |-> "returned true"]
        /\ UNCHANGED <<users, dbQueue, user, isAuthenticated, lastActivity, autoLockMinutes,
                       lockTimer, clipboardClearMinutes, recoveryVars, recoveryEmail, now,
                       clipboard, dispatched, flow, proxyVars, vaultVars>>

\* copyToClipboard(text) when navigator.clipboard is undefined: the first
\* statement throws and nothing else runs
copyToClipboardUnavailable(text) ==
    /\ last' = Last("copyToClipboard", "TypeError")
    /\ fault' = [op |-> "copyToClipboard", of |-> "clipboard", outcome |-> "failed"]
    /\ UNCHANGED <<users, dbQueue, sessionVars, recoveryVars, recoveryEmail, now, timers,
                   clipboard, dispatched, flow, copied, proxyVars, vaultVars>>

\* the setTimeout callback of copyToClipboard, for the due timer t
clipboardTimeout(t) ==
    /\ t \in timers
    /\ t.kind = "clipboard"
    /\ t.due <= now
    /\ LET c == clearClipboard(timers \ {t}, clipboardTimer) IN
        /\ timers' = c.timers
        /\ clipboardTimer' = c.clipboardTimer
        /\ clipboard' = c.clipboard
    /\ copied' = [copied EXCEPT !.clears = @ + 1, !.clearedAt = now]
    /\ last' = Last("clipboardTimeout", "ok")
    /\ UNCHANGED <<users, dbQueue, user, isAuthenticated, lastActivity, autoLockMinutes,
                   lockTimer, clipboardClearMinutes, recoveryVars, recoveryEmail, now,
                   dispatched, flow, proxyVars, vaultVars, fault>>

\* the clock: time passes up to the next due timer, never beyond one
Tick(step, horizon) ==
    /\ now < horizon
    /\ \A t \in timers : t.due > now
    /\ now' = Min({now + step} \cup {t.due : t \in timers})
    /\ UNCHANGED <<users, dbQueue, sessionVars, recoveryVars, recoveryEmail, timers,
                   clipboard, dispatched, last, flow, copied, proxyVars, vaultVars, fault>>

\* updateSettings(settings), up to "await database.saveUser(this.user)"
updateSettings(settings) ==
    /\ user # NoUser
    /\ Len(dbQueue) < MaxQueue
    /\ user' = [user EXCEPT !.settings = settings]
    /\ autoLockMinutes' = OrDefault(settings.autoLockMinutes, autoLockMinutes)
    /\ clipboardClearMinutes' = OrDefault(settings.clipboardClearMinutes, clipboardClearMinutes)
    /\ dbQueue' = Append(dbQueue, Request("saveUser", user.email, "updateSettingsSaved", <<>>, <<>>,
                                          [user EXCEPT !.settings = settings]))
    /\ last' = Last("updateSettings", "pending")
    /\ UNCHANGED <<users, isAuthenticated, lastActivity, lockTimer, clipboardTimer, recoveryVars,
                   recoveryEmail, now, timers, clipboard, dispatched, flow, copied, proxyVars, vaultVars, fault>>

\* updateSettings(settings) while no user is bound: "if (!this.user) return"
updateSettingsNoUser ==
    /\ user = NoUser
    /\ last' = Last("updateSettings", "noUser")
    /\ UNCHANGED <<users, dbQueue, sessionVars, recoveryVars, recoveryEmail, now, timers,
                   clipboard, dispatched, flow, copied, proxyVars, vaultVars, fault>>

\* updateSettings(), the completion of saveUser
updateSettingsSaved ==
    /\ dbQueue # <<>>
    /\ Head(dbQueue).cont = "updateSettingsSaved"
    /\ users' = saveUser(Head(dbQueue).rec)
    /\ dbQueue' = Tail(dbQueue)
    /\ last' = [Last("updateSettings", "ok") EXCEPT !.email = Head(dbQueue).email]
    /\ UNCHANGED <<sessionVars, recoveryVars, recoveryEmail, now, timers,
                   clipboard, dispatched, flow, copied, proxyVars, vaultVars, fault>>

\* the SessionManager method that awaits a request with continuation cont
AwaitingMethod(cont) ==
    CASE cont \in {"register", "registerSaved"} -> "register"
      [] cont = "login" -> "login"
      [] cont = "updateSettingsSaved" -> "updateSettings"
      [] cont \in {"updatePassword", "updatePasswordSaved"} -> "updatePassword"
      [] OTHER -> "getUserForRecovery"

\* request.onerror of the oldest request: its promise rejects, and the method
\* awaiting it, which has no try/catch, rejects to its caller without
\* running the statements after the await
requestError ==
    /\ dbQueue # <<>>
    /\ dbQueue' = Tail(dbQueue)
    /\ last' = [Last(AwaitingMethod(Head(dbQueue).cont), "StoreFault")
                    EXCEPT !.email = Head(dbQueue).email]
    /\ fault' = [op |-> AwaitingMethod(Head(dbQueue).cont), of |-> "store",
                 outcome |-> "failed"]
    /\ UNCHANGED <<users, sessionVars, recoveryVars, recoveryEmail, now, timers,
                   clipboard, dispatched, flow, copied, proxyVars, vaultVars>>

\* updatePassword(email, newPassword), up to "await database.getUser(email)"
updatePassword(email, newPassword) ==
    /\ Len(dbQueue) < MaxQueue
    /\ dbQueue' = Append(dbQueue, Request("getUser", email, "updatePassword", newPassword, <<>>, NoUser))
    /\ UNCHANGED <<users, sessionVars, recoveryVars, recoveryEmail, now, timers,
                   clipboard, dispatched, last, flow, copied, proxyVars, vaultVars, fault>>

\* updatePassword() that saves the record without computing the new digest
updatePasswordLookupKeepDigest ==
    /\ dbQueue # <<>>
    /\ Head(dbQueue).cont = "updatePassword"
    /\ LET r == Head(dbQueue)
           u == getUser(r.email)
       IN
        IF u = NoUser
        THEN /\ dbQueue' = Tail(dbQueue)
             /\ last' = [Last("updatePassword", "noUser") EXCEPT !.email = r.email, !.secret = r.secret]
        ELSE /\ dbQueue' = Append(Tail(dbQueue),
                    Request("saveUser", r.email, "updatePasswordSaved", r.secret, <<>>,
                            [u EXCEPT !.registered.password = r.secret]))
             /\ last' = last
    /\ UNCHANGED <<users, sessionVars, recoveryVars, recoveryEmail, now, timers,
                   clipboard, dispatched, flow, copied, proxyVars, vaultVars, fault>>

\* updatePassword(), from the completion of getUser up to "await database.saveUser(user)"
updatePasswordLookup ==
    /\ dbQueue # <<>>
    /\ Head(dbQueue).cont = "updatePassword"
    /\ LET r == Head(dbQueue)
           u == getUser(r.email)
       IN
        IF u = NoUser
        THEN /\ dbQueue' = Tail(dbQueue)
             /\ last' = [Last("updatePassword", "noUser") EXCEPT !.email = r.email, !.secret = r.secret]
        ELSE /\ dbQueue' = Append(Tail(dbQueue),
                    Request("saveUser", r.email, "updatePasswordSaved", r.secret, <<>>,
                            [u EXCEPT !.masterPassword = hashPassword(r.secret),
                                      !.registered.password = r.secret]))
             /\ last' = last
    /\ UNCHANGED <<users, sessionVars, recoveryVars, recoveryEmail, now, timers,
                   clipboard, dispatched, flow, copied, proxyVars, vaultVars, fault>>

\* updatePassword(), the completion of saveUser
updatePasswordSaved ==
    /\ dbQueue # <<>>
    /\ Head(dbQueue).cont = "updatePasswordSaved"
    /\ users' = saveUser(Head(dbQueue).rec)
    /\ dbQueue' = Tail(dbQueue)
    /\ last' = [Last("updatePassword", "ok") EXCEPT !.email = Head(dbQueue).email,
                                                    !.secret = Head(dbQueue).secret]
    /\ UNCHANGED <<sessionVars, recoveryVars, recoveryEmail, now, timers,
                   clipboard, dispatched, flow, copied, proxyVars, vaultVars, fault>>

\* ------------------------------------------------------------------------
\* PasswordRecoveryManager and its chain of SecurityQuestionHandlers
\* ------------------------------------------------------------------------
\* answers[index], with "(userAnswer || '')" for a missing entry
AnswerAt(answers, index) == IF index + 1 <= Len(answers) THEN answers[index + 1] ELSE <<>>

\* SecurityQuestionHandler.verify without the trim of the answer
HandlerVerifyNoTrim(h, userAnswer) ==
    recoveryHashFunction(toLowerCase(userAnswer)) = h.hashedAnswer

\* SecurityQuestionHandler.verify of handler h
HandlerVerify(h, userAnswer) ==
    recoveryHashFunction(trim(toLowerCase(userAnswer))) = h.hashedAnswer

\* handleRequest that asks the successor also after a failed verify and
\* reports the last failure
RECURSIVE handleRequestAll(_, _, _)
handleRequestAll(c, k, answers) ==
    LET ok   == HandlerVerify(c[k], AnswerAt(answers, c[k].index))
        rest == IF k < Len(c) THEN handleRequestAll(c, k + 1, answers)
                ELSE [success |-> TRUE, failedAt |-> 0, evaluated |-> {}]
    IN  [success |-> ok /\ rest.success,
         failedAt |-> IF rest.failedAt # 0 THEN rest.failedAt
                      ELSE IF ok THEN 0 ELSE c[k].index + 1,
         evaluated |-> rest.evaluated \cup {c[k].index}]

\* SecurityQuestionHandler.handleRequest of the k-th handler of chain c; the
\* successor of a handler is the next one of c.  "evaluated" collects the
\* indices of the handlers whose verify ran.
RECURSIVE handleRequest(_, _, _)
handleRequest(c, k, answers) ==
    IF ~HandlerVerify(c[k], AnswerAt(answers, c[k].index))
    THEN [success |-> FALSE, failedAt |-> c[k].index + 1, evaluated |-> {c[k].index}]
    ELSE IF k < Len(c)
    THEN LET r == handleRequest(c, k + 1, answers)
         IN  [r EXCEPT !.evaluated = @ \cup {c[k].index}]
    ELSE [success |-> TRUE, failedAt |-> 0, evaluated |-> {c[k].index}]

\* the three handlers initialize() creates and links
BuildChain(securityQuestions) ==
    [i \in 1..3 |-> [question |-> securityQuestions[i].question,
                     hashedAnswer |-> securityQuestions[i].answer,
                     index |-> i - 1]]

\* startRecovery(), up to the call of getUserForRecovery
startRecovery(email) ==
    /\ Len(dbQueue) < MaxQueue
    /\ recoveryEmail' = email
    /\ dbQueue' = Append(dbQueue, Request("getUser", email, "startRecovery", <<>>, <<>>, NoUser))
    /\ UNCHANGED <<users, sessionVars, recoveryVars, now, timers, clipboard, dispatched,
                   last, flow, copied, proxyVars, vaultVars, fault>>

\* startRecovery() from the start-recovery button, which is shown while no
\* questions are rendered (no chain); further clicks may come while the
\* lookups of earlier ones are in flight
startRecoveryClick(email) ==
    /\ chain = <<>>
    /\ Len(dbQueue) < MaxOverlap
    /\ recoveryEmail' = email
    /\ dbQueue' = Append(dbQueue, Request("getUser", email, "startRecovery", <<>>, <<>>, NoUser))
    /\ UNCHANGED <<users, sessionVars, recoveryVars, now, timers, clipboard, dispatched,
                   last, flow, copied, proxyVars, vaultVars, fault>>

\* two getUser requests, each in a readonly transaction of its own, complete
\* in either order
overtake ==
    /\ Len(dbQueue) >= 2
    /\ dbQueue[1].req = "getUser"
    /\ dbQueue[2].req = "getUser"
    /\ dbQueue[1] # dbQueue[2]
    /\ dbQueue' = <<dbQueue[2], dbQueue[1]>> \o SubSeq(dbQueue, 3, Len(dbQueue))
    /\ UNCHANGED <<users, sessionVars, recoveryVars, recoveryEmail, now, timers, clipboard,
                   dispatched, last, flow, copied, proxyVars, vaultVars, fault>>

\* startRecoveryThen whose initialize clears counter and lockout before it
\* counts the questions
startRecoveryThenResetFirst ==
    /\ dbQueue # <<>>
    /\ Head(dbQueue).cont = "startRecovery"
    /\ dbQueue' = Tail(dbQueue)
    /\ LET r == Head(dbQueue)
           u == getUser(r.email)
           l == [Last("initialize", "ok") EXCEPT !.email = r.email]
       IN
        IF u = NoUser
        THEN /\ last' = [l EXCEPT !.op = "startRecovery", !.res = "AccountNotFound"]
             /\ UNCHANGED <<recoveryVars, flow>>
        ELSE IF Len(u.securityQuestions) < 3
        THEN /\ last' = [l EXCEPT !.res = "InsufficientFactors"]
             /\ attempts' = 0
             /\ locked' = FALSE
             /\ UNCHANGED <<chain, questions, flow>>
        ELSE /\ questions' = [i \in 1..Len(u.securityQuestions) |->
                                [index |-> i - 1, question |-> u.securityQuestions[i].question]]
             /\ chain' = BuildChain(u.securityQuestions)
             /\ attempts' = 0
             /\ locked' = FALSE
             /\ flow' = [fails |-> 0, thirdFailAt |-> -1, answers |-> u.registered.answers]
             /\ last' = l
    /\ UNCHANGED <<users, sessionVars, recoveryEmail, now, timers, clipboard, dispatched, copied, proxyVars, vaultVars, fault>>

\* startRecoveryThen whose initialize leaves an active lockout in place
startRecoveryThenKeepLock ==
    /\ dbQueue # <<>>
    /\ Head(dbQueue).cont = "startRecovery"
    /\ dbQueue' = Tail(dbQueue)
    /\ LET r == Head(dbQueue)
           u == getUser(r.email)
           l == [Last("initialize", "ok") EXCEPT !.email = r.email]
       IN
        IF u = NoUser
        THEN /\ last' = [l EXCEPT !.op = "startRecovery", !.res = "AccountNotFound"]
             /\ UNCHANGED <<recoveryVars, flow>>
        ELSE IF Len(u.securityQuestions) < 3
        THEN /\ last' = [l EXCEPT !.res = "InsufficientFactors"]
             /\ UNCHANGED <<recoveryVars, flow>>
        ELSE /\ questions' = [i \in 1..Len(u.securityQuestions) |->
                                [index |-> i - 1, question |-> u.securityQuestions[i].question]]
             /\ chain' = BuildChain(u.securityQuestions)
             /\ attempts' = 0
             /\ locked' = locked
             /\ flow' = [fails |-> 0, thirdFailAt |-> -1, answers |-> u.registered.answers]
             /\ last' = l
    /\ UNCHANGED <<users, sessionVars, recoveryEmail, now, timers, clipboard, dispatched, copied, proxyVars, vaultVars, fault>>

\* the .then() callback of startRecovery, with recoveryManager.initialize inside
startRecoveryThen ==
    /\ dbQueue # <<>>
    /\ Head(dbQueue).cont = "startRecovery"
    /\ dbQueue' = Tail(dbQueue)
    /\ LET r == Head(dbQueue)
           u == getUser(r.email)
           l == [Last("initialize", "ok") EXCEPT !.email = r.email]
       IN
        IF u = NoUser
        THEN /\ last' = [l EXCEPT !.op = "startRecovery", !.res = "AccountNotFound"]
             /\ UNCHANGED <<recoveryVars, flow>>
        ELSE IF Len(u.securityQuestions) < 3
        THEN /\ last' = [l EXCEPT !.res = "InsufficientFactors"]
             /\ UNCHANGED <<recoveryVars, flow>>
        ELSE /\ questions' = [i \in 1..Len(u.securityQuestions) |->
                                [index |-> i - 1, question |-> u.securityQuestions[i].question]]
             /\ chain' = BuildChain(u.securityQuestions)
             /\ attempts' = 0
             /\ locked' = FALSE
             /\ flow' = [fails |-> 0, thirdFailAt |-> -1, answers |-> u.registered.answers]
             /\ last' = l
    /\ UNCHANGED <<users, sessionVars, recoveryEmail, now, timers, clipboard, dispatched, copied, proxyVars, vaultVars, fault>>

\* verify that computes the attempts left before it counts the failure
verifyLateCount(answers) ==
    LET l == [Last("verify", "success") EXCEPT !.answers = answers] IN
    /\ IF locked
       THEN /\ last' = [l EXCEPT !.res = "RecoveryLocked"]
            /\ UNCHANGED <<attempts, locked, timers, flow>>
       ELSE IF chain = <<>>
       THEN /\ last' = [l EXCEPT !.res = "RecoveryNotInitialized"]
            /\ UNCHANGED <<attempts, locked, timers, flow>>
       ELSE LET result == handleRequest(chain, 1, answers)
                lr == [l EXCEPT !.failedAt = result.failedAt, !.evaluated = result.evaluated]
            IN
            IF ~result.success
            THEN /\ attempts' = attempts + 1
                 /\ flow' = [flow EXCEPT !.fails = IF @ < 3 THEN @ + 1 ELSE @,
                                         !.thirdFailAt = IF flow.fails = 2 THEN now ELSE @]
                 /\ IF attempts + 1 >= maxAttempts
                    THEN /\ Cardinality({t \in timers : t.kind = "lockout"}) < MaxLockoutTimers
                         /\ locked' = TRUE
                         /\ timers' = timers \cup
                                {[id |-> NewTimerId(timers, {lockTimer, clipboardTimer}),
                                  kind |-> "lockout",
                                  due |-> now + LockoutMinutes * MsPerMinute]}
                         /\ last' = [lr EXCEPT !.res = "LockedFor15Minutes"]
                    ELSE /\ last' = [lr EXCEPT !.res = "incorrect",
                                               !.attemptsLeft = maxAttempts - attempts]
                         /\ UNCHANGED <<locked, timers>>
            ELSE /\ last' = lr
                 /\ UNCHANGED <<attempts, locked, timers, flow>>
    /\ UNCHANGED <<users, dbQueue, sessionVars, chain, questions, recoveryEmail, now,
                   clipboard, dispatched, copied, proxyVars, vaultVars, fault>>

\* verify that clears the attempt counter when the answers match
verifyResetOnSuccess(answers) ==
    LET l == [Last("verify", "success") EXCEPT !.answers = answers] IN
    /\ IF locked
       THEN /\ last' = [l EXCEPT !.res = "RecoveryLocked"]
            /\ UNCHANGED <<attempts, locked, timers, flow>>
       ELSE IF chain = <<>>
       THEN /\ last' = [l EXCEPT !.res = "RecoveryNotInitialized"]
            /\ UNCHANGED <<attempts, locked, timers, flow>>
       ELSE LET result == handleRequest(chain, 1, answers)
                lr == [l EXCEPT !.failedAt = result.failedAt, !.evaluated = result.evaluated]
            IN
            IF ~result.success
            THEN /\ attempts' = attempts + 1
                 /\ flow' = [flow EXCEPT !.fails = IF @ < 3 THEN @ + 1 ELSE @,
                                         !.thirdFailAt = IF flow.fails = 2 THEN now ELSE @]
                 /\ IF attempts + 1 >= maxAttempts
                    THEN /\ Cardinality({t \in timers : t.kind = "lockout"}) < MaxLockoutTimers
                         /\ locked' = TRUE
                         /\ timers' = timers \cup
                                {[id |-> NewTimerId(timers, {lockTimer, clipboardTimer}),
                                  kind |-> "lockout",
                                  due |-> now + LockoutMinutes * MsPerMinute]}
                         /\ last' = [lr EXCEPT !.res = "LockedFor15Minutes"]
                    ELSE /\ last' = [lr EXCEPT !.res = "incorrect",
                                               !.attemptsLeft = maxAttempts - (attempts + 1)]
                         /\ UNCHANGED <<locked, timers>>
            ELSE /\ last' = lr
                 /\ attempts' = 0
                 /\ UNCHANGED <<locked, timers, flow>>
    /\ UNCHANGED <<users, dbQueue, sessionVars, chain, questions, recoveryEmail, now,
                   clipboard, dispatched, copied, proxyVars, vaultVars, fault>>

\* verify that counts a call made during a lockout as one more attempt
verifyCountingWhileLocked(answers) ==
    LET l == [Last("verify", "success") EXCEPT !.answers = answers] IN
    /\ IF locked
       THEN /\ last' = [l EXCEPT !.res = "RecoveryLocked"]
            /\ attempts' = attempts + 1
            /\ UNCHANGED <<locked, timers, flow>>
       ELSE IF chain = <<>>
       THEN /\ last' = [l EXCEPT !.res = "RecoveryNotInitialized"]
            /\ UNCHANGED <<attempts, locked, timers, flow>>
       ELSE LET result == handleRequest(chain, 1, answers)
                lr == [l EXCEPT !.failedAt = result.failedAt, !.evaluated = result.evaluated]
            IN
            IF ~result.success
            THEN /\ attempts' = attempts + 1
                 /\ flow' = [flow EXCEPT !.fails = IF @ < 3 THEN @ + 1 ELSE @,
                                         !.thirdFailAt = IF flow.fails = 2 THEN now ELSE @]
                 /\ IF attempts + 1 >= maxAttempts
                    THEN /\ Cardinality({t \in timers : t.kind = "lockout"}) < MaxLockoutTimers
                         /\ locked' = TRUE
                         /\ timers' = timers \cup
                                {[id |-> NewTimerId(timers, {lockTimer, clipboardTimer}),
                                  kind |-> "lockout",
                                  due |-> now + LockoutMinutes * MsPerMinute]}
                         /\ last' = [lr EXCEPT !.res = "LockedFor15Minutes"]
                    ELSE /\ last' = [lr EXCEPT !.res = "incorrect",
                                               !.attemptsLeft = maxAttempts - (attempts + 1)]
                         /\ UNCHANGED <<locked, timers>>
            ELSE /\ last' = lr
                 /\ UNCHANGED <<attempts, locked, timers, flow>>
    /\ UNCHANGED <<users, dbQueue, sessionVars, chain, questions, recoveryEmail, now,
                   clipboard, dispatched, copied, proxyVars, vaultVars, fault>>

\* PasswordRecoveryManager.verify(answers)
verify(answers) ==
    LET l == [Last("verify", "success") EXCEPT !.answers = answers] IN
    /\ IF locked
       THEN /\ last' = [l EXCEPT !.res = "RecoveryLocked"]
            /\ UNCHANGED <<attempts, locked, timers, flow>>
       ELSE IF chain = <<>>
       THEN /\ last' = [l EXCEPT !.res = "RecoveryNotInitialized"]
            /\ UNCHANGED <<attempts, locked, timers, flow>>
       ELSE LET result == handleRequest(chain, 1, answers)
                lr == [l EXCEPT !.failedAt = result.failedAt, !.evaluated = result.evaluated]
            IN
            IF ~result.success
            THEN /\ attempts' = attempts + 1
                 /\ flow' = [flow EXCEPT !.fails = IF @ < 3 THEN @ + 1 ELSE @,
                                         !.thirdFailAt = IF flow.fails = 2 THEN now ELSE @]
                 /\ IF attempts + 1 >= maxAttempts
                    THEN /\ Cardinality({t \in timers : t.kind = "lockout"}) < MaxLockoutTimers
                         /\ locked' = TRUE
                         /\ timers' = timers \cup
                                {[id |-> NewTimerId(timers, {lockTimer, clipboardTimer}),
                                  kind |-> "lockout",
                                  due |-> now + LockoutMinutes * MsPerMinute]}
                         /\ last' = [lr EXCEPT !.res = "LockedFor15Minutes"]
                    ELSE /\ last' = [lr EXCEPT !.res = "incorrect",
                                               !.attemptsLeft = maxAttempts - (attempts + 1)]
                         /\ UNCHANGED <<locked, timers>>
            ELSE /\ last' = lr
                 /\ UNCHANGED <<attempts, locked, timers, flow>>
    /\ UNCHANGED <<users, dbQueue, sessionVars, chain, questions, recoveryEmail, now,
                   clipboard, dispatched, copied, proxyVars, vaultVars, fault>>

\* lockoutTimeout that clears the attempt counter and leaves the lockout set
lockoutTimeoutKeepingLock(t) ==
    /\ t \in timers
    /\ t.kind = "lockout"
    /\ t.due <= now
    /\ timers' = timers \ {t}
    /\ attempts' = 0
    /\ last' = Last("lockoutTimeout", "ok")
    /\ UNCHANGED <<users, dbQueue, sessionVars, chain, questions, locked, recoveryEmail, now,
                   clipboard, dispatched, flow, copied, proxyVars, vaultVars, fault>>

\* the setTimeout callback of verify, for the due timer t
lockoutTimeout(t) ==
    /\ t \in timers
    /\ t.kind = "lockout"
    /\ t.due <= now
    /\ timers' = timers \ {t}
    /\ locked' = FALSE
    /\ attempts' = 0
    /\ last' = Last("lockoutTimeout", "ok")
    /\ UNCHANGED <<users, dbQueue, sessionVars, chain, questions, recoveryEmail, now,
                   clipboard, dispatched, flow, copied, proxyVars, vaultVars, fault>>

\* reset that leaves the attempt counter and the lockout in place
resetKeepingLock ==
    /\ chain' = <<>>
    /\ questions' = <<>>
    /\ recoveryEmail' = ""
    /\ flow' = [fails |-> 0, thirdFailAt |-> -1, answers |-> <<>>]
    /\ last' = Last("reset", "ok")
    /\ UNCHANGED <<users, dbQueue, sessionVars, attempts, locked, now, timers, clipboard,
                   dispatched, copied, proxyVars, vaultVars, fault>>

\* reset that leaves the chain and the question list in place
resetKeepingChain ==
    /\ attempts' = 0
    /\ locked' = FALSE
    /\ recoveryEmail' = ""
    /\ flow' = [fails |-> 0, thirdFailAt |-> -1, answers |-> <<>>]
    /\ last' = Last("reset", "ok")
    /\ UNCHANGED <<users, dbQueue, sessionVars, chain, questions, now, timers, clipboard,
                   dispatched, copied, proxyVars, vaultVars, fault>>

\* resetRecoveryForm(): recoveryManager.reset() and recoveryEmail = ''
reset ==
    /\ chain' = <<>>
    /\ questions' = <<>>
    /\ attempts' = 0
    /\ locked' = FALSE
    /\ recoveryEmail' = ""
    /\ flow' = [fails |-> 0, thirdFailAt |-> -1, answers |-> <<>>]
    /\ last' = Last("reset", "ok")
    /\ UNCHANGED <<users, dbQueue, sessionVars, now, timers, clipboard, dispatched, copied, proxyVars, vaultVars, fault>>


\* ------------------------------------------------------------------------
\* Inputs
\* ------------------------------------------------------------------------
Emails == {"a@x.com", "b@x.com"}

QA(q, a) == [question |-> q, answer |-> a]

\* three distinct questions
ThreeQuestions == <<QA("pet", Rex), QA("city", Max), QA("school", RexVariant)>>
\* fewer than three questions
TwoQuestions == <<QA("pet", Rex), QA("city", Max)>>
\* three entries, two of them with the same question text
RepeatedQuestion == <<QA("pet", Rex), QA("pet", Max), QA("school", Rex)>>

QuestionLists == {ThreeQuestions, TwoQuestions, RepeatedQuestion}

\* ------------------------------------------------------------------------
\* SensitiveDataProxy and MaskingRules (strings are sequences of char codes)
\* ------------------------------------------------------------------------
\* the characters U+2022, ' ' and '-'
Bullet == 8226
Space == 32
Dash == 45

\* c.repeat(Math.max(0, n))
Repeat(c, n) == [i \in 1..n |-> c]

\* v.slice(-n)
SliceLast(v, n) == IF Len(v) <= n THEN v ELSE SubSeq(v, Len(v) - n + 1, Len(v))

\* v.replace(/\s/g, '')
RemoveWhiteSpace(v) == SelectSeq(v, LAMBDA c : c \notin WhiteSpace)

\* v.replace(/[^0-9]/g, '')
OnlyDigits(v) == SelectSeq(v, LAMBDA c : c \in 48..57)

EightBullets == Repeat(Bullet, 8)

\* the static methods of MaskingRules
MaskTypes == {"password", "username", "creditCard", "cvv", "ssn", "passport", "license"}

\* MaskingRules[type](v)
MaskingRules(type, v) ==
    CASE type = "password" -> EightBullets
      [] type = "username" ->
            IF v = <<>> THEN <<>>
            ELSE <<v[1]>> \o Repeat(Bullet, Len(v) - 2)
                          \o (IF Len(v) > 1 THEN <<v[Len(v)]>> ELSE <<>>)
      [] type = "creditCard" ->
            IF v = <<>> THEN <<>>
            ELSE Repeat(Bullet, 4) \o <<Space>> \o Repeat(Bullet, 4) \o <<Space>>
                    \o Repeat(Bullet, 4) \o <<Space>> \o SliceLast(RemoveWhiteSpace(v), 4)
      [] type = "cvv" -> Repeat(Bullet, 3)
      [] type = "ssn" ->
            IF v = <<>> THEN <<>>
            ELSE Repeat(Bullet, 3) \o <<Dash>> \o Repeat(Bullet, 2) \o <<Dash>>
                    \o SliceLast(OnlyDigits(v), 4)
      [] type = "passport" ->
            IF v = <<>> THEN <<>>
            ELSE SubSeq(v, 1, IF Len(v) < 2 THEN Len(v) ELSE 2) \o Repeat(Bullet, Len(v) - 2)
      [] type = "license" ->
            IF v = <<>> THEN <<>>
            ELSE Repeat(Bullet, Len(v) - 3) \o SliceLast(v, 3)

\* no proxy constructed yet
NoProxy == [value |-> <<>>, type |-> "", masked |-> FALSE]

NotSeen == [op |-> "none", ret |-> <<>>, flag |-> FALSE, preMasked |-> FALSE,
            run |-> -1, masked0 |-> FALSE, ret0 |-> <<>>]

\* no collaborator has failed yet
NoFault == [op |-> "none", of |-> "none", outcome |-> "none"]

\* SensitiveDataProxy.getMaskedValue of proxy p
getMaskedValueOf(p) ==
    IF p.type \in MaskTypes THEN MaskingRules(p.type, p.value) ELSE EightBullets

\* SensitiveDataProxy.getValue of proxy p
getValueOf(p) == IF p.masked THEN getMaskedValueOf(p) ELSE p.value

\* the frame of the calls on the proxy
ProxyFrame ==
    UNCHANGED <<users, dbQueue, sessionVars, recoveryVars, recoveryEmail, now, timers,
                clipboard, dispatched, last, flow, copied, fault, vaultVars>>

\* new SensitiveDataProxy(value, type)
newSensitiveDataProxy(value, type) ==
    /\ proxy' = [value |-> value, type |-> type, masked |-> TRUE]
    /\ seen' = [NotSeen EXCEPT !.op = "new"]
    /\ ProxyFrame

\* proxy.getValue()
getValue ==
    /\ proxy # NoProxy
    /\ seen' = [op |-> "getValue", ret |-> getValueOf(proxy), flag |-> FALSE,
                preMasked |-> proxy.masked, run |-> 0, masked0 |-> proxy.masked,
                ret0 |-> getValueOf(proxy)]
    /\ UNCHANGED proxy
    /\ ProxyFrame

\* proxy.getMaskedValue()
getMaskedValue ==
    /\ proxy # NoProxy
    /\ seen' = [NotSeen EXCEPT !.op = "getMaskedValue", !.ret = getMaskedValueOf(proxy),
                               !.preMasked = proxy.masked]
    /\ UNCHANGED proxy
    /\ ProxyFrame

\* proxy.getRealValue()
getRealValue ==
    /\ proxy # NoProxy
    /\ seen' = [NotSeen EXCEPT !.op = "getRealValue", !.ret = proxy.value,
                               !.preMasked = proxy.masked]
    /\ UNCHANGED proxy
    /\ ProxyFrame

\* proxy.toggle(); "run" counts the toggles since the last getValue (3 for more)
toggle ==
    /\ proxy # NoProxy
    /\ proxy' = [proxy EXCEPT !.masked = ~proxy.masked]
    /\ seen' = [seen EXCEPT !.op = "toggle", !.ret = getValueOf(proxy'), !.flag = FALSE,
                            !.preMasked = proxy.masked,
                            !.run = IF @ = -1 THEN -1 ELSE IF @ < 3 THEN @ + 1 ELSE 3]
    /\ ProxyFrame

\* proxy.isMasked()
isMasked ==
    /\ proxy # NoProxy
    /\ seen' = [NotSeen EXCEPT !.op = "isMasked", !.flag = proxy.masked,
                               !.preMasked = proxy.masked]
    /\ UNCHANGED proxy
    /\ ProxyFrame

\* ------------------------------------------------------------------------
\* VaultManager and the 'vault' object store
\* ------------------------------------------------------------------------
\* an empty vault
NoItems == [i \in {} |-> [id |-> 0, userEmail |-> "", data |-> ""]]

NoVaultCall == [op |-> "none", res |-> "ok", session |-> "Unauthenticated",
                returned |-> {}, changed |-> FALSE]

\* the history entry of a VaultManager call made in the present session state
VaultCall(op, res, returned, changed) ==
    [op |-> op, res |-> res,
     session |-> IF user = NoUser THEN "Unauthenticated"
                 ELSE IF isAuthenticated THEN "Authenticated" ELSE "Locked",
     returned |-> returned, changed |-> changed]

\* database.getVaultItems(userEmail)
getVaultItems(userEmail) == {vault[i] : i \in {j \in DOMAIN vault : vault[j].userEmail = userEmail}}

\* database.saveVaultItem(item): store.put
saveVaultItem(item) == [i \in DOMAIN vault \cup {item.id} |-> IF i = item.id THEN item ELSE vault[i]]

\* database.deleteVaultItem(id): store.delete
deleteVaultItem(id) == [i \in DOMAIN vault \ {id} |-> vault[i]]

\* the frame of the VaultManager calls
VaultFrame ==
    UNCHANGED <<users, dbQueue, sessionVars, recoveryVars, recoveryEmail, now, timers,
                clipboard, dispatched, last, flow, copied, proxyVars, fault>>

\* VaultManager.getAllItems()
getAllItems ==
    /\ vaultLast' = IF user = NoUser
                    THEN VaultCall("getAllItems", "NotAuthenticated", {}, FALSE)
                    ELSE VaultCall("getAllItems", "ok", getVaultItems(user.email), FALSE)
    /\ UNCHANGED vault
    /\ VaultFrame

\* VaultManager.getItemById(id)
getItemById(id) ==
    /\ vaultLast' = VaultCall("getItemById", "ok",
                              IF id \in DOMAIN vault THEN {vault[id]} ELSE {}, FALSE)
    /\ UNCHANGED vault
    /\ VaultFrame

\* VaultManager.createItem(type, data), with a fresh id
createItem(data) ==
    /\ \E i \in 1..MaxItems : i \notin DOMAIN vault
    /\ IF user = NoUser
       THEN /\ vaultLast' = VaultCall("createItem", "NotAuthenticated", {}, FALSE)
            /\ UNCHANGED vault
       ELSE LET id   == Min({i \in 1..MaxItems : i \notin DOMAIN vault})
                item == [id |-> id, userEmail |-> user.email, data |-> data]
            IN  /\ vault' = saveVaultItem(item)
                /\ vaultLast' = VaultCall("createItem", "ok", {item}, TRUE)
    /\ VaultFrame

\* VaultManager.updateItem(id, data); checkSecurity after the write calls
\* getAllItems, which throws when no user is bound
updateItem(id, data) ==
    /\ IF id \notin DOMAIN vault
       THEN /\ vaultLast' = VaultCall("updateItem", "ItemNotFound", {}, FALSE)
            /\ UNCHANGED vault
       ELSE LET item == [vault[id] EXCEPT !.data = data] IN
            /\ vault' = saveVaultItem(item)
            /\ vaultLast' = IF user = NoUser
                            THEN VaultCall("updateItem", "NotAuthenticated", {}, vault' # vault)
                            ELSE VaultCall("updateItem", "ok", {item}, vault' # vault)
    /\ VaultFrame

\* VaultManager.deleteItem(id)
deleteItem(id) ==
    /\ vault' = deleteVaultItem(id)
    /\ vaultLast' = VaultCall("deleteItem", "ok", {}, vault' # vault)
    /\ VaultFrame

\* the state after construction with the store holding users0; time starts at t0
InitWith(users0) ==
    /\ users = users0
    /\ dbQueue = <<>>
    /\ user = NoUser
    /\ isAuthenticated = FALSE
    /\ now = 0
    /\ lastActivity = 0
    /\ autoLockMinutes = 1
    /\ lockTimer = NoTimer
    /\ clipboardTimer = NoTimer
    /\ clipboardClearMinutes = 1
    /\ chain = <<>>
    /\ questions = <<>>
    /\ attempts = 0
    /\ locked = FALSE
    /\ recoveryEmail = ""
    /\ timers = {}
    /\ clipboard = ""
    /\ dispatched = 0
    /\ last = [op |-> "init", res |-> "ok", email |-> "", secret |-> <<>>,
               answers |-> <<>>, failedAt |-> 0, evaluated |-> {}, attemptsLeft |-> 0,
               preTimer |-> FALSE, preLocked |-> FALSE]
    /\ flow = [fails |-> 0, thirdFailAt |-> -1, answers |-> <<>>]
    /\ copied = [at |-> -1, delay |-> 0, replaced |-> FALSE, clears |-> 0, clearedAt |-> -1,
                 loggedOut |-> FALSE]
    /\ proxy = NoProxy
    /\ seen = NotSeen
    /\ fault = NoFault
    /\ vault = NoItems
    /\ vaultLast = NoVaultCall

\* an empty store
NoUsers == [e \in {} |-> NoUser]

\* ------------------------------------------------------------------------
\* Spec: accounts and authentication (time stands still)
\* ------------------------------------------------------------------------
Init == InitWith(NoUsers)

Next ==
    \/ \E e \in Emails, p \in {Aa, Ab} : register(e, p, ThreeQuestions)
    \/ registerLookup
    \/ registerSaved
    \/ \E e \in Emails, p \in Passwords : login(e, p)
    \/ loginLookup
    \/ logout
    \/ lock
    \/ \E p \in Passwords : unlock(p)
    \/ \E e \in Emails, p \in {Ab} : updatePassword(e, p)
    \/ updatePasswordLookup
    \/ updatePasswordSaved

Spec == Init /\ [][Next]_vars

\* ------------------------------------------------------------------------
\* SessionSpec: the session life cycle with its inactivity timer, over a
\* store that already holds the accounts of earlier registrations
\* ------------------------------------------------------------------------
SessionEmails == {"a@x.com"}

RegisteredUsers == [e \in SessionEmails |-> NewUser(e, Aa, ThreeQuestions)]

SessionInit == InitWith(RegisteredUsers)

SessionPasswords == {Aa, Ab}

SettingsInputs ==
    { [autoLockMinutes |-> 1, clipboardClearMinutes |-> 1],
      [autoLockMinutes |-> 0, clipboardClearMinutes |-> 1] }

ClipboardTexts == {"secret"}

\* the session clock advances by one inactivity-check period
SessionStepMs == CheckIntervalMs
SessionHorizonMs == SessionHorizonIntervals * CheckIntervalMs

SessionNext ==
    \/ \E e \in SessionEmails, p \in SessionPasswords : login(e, p)
    \/ loginLookup
    \/ logout
    \/ lock
    \/ \E p \in SessionPasswords : unlock(p)
    \/ updateActivity
    \/ \E t \in timers : autoLockCheck(t)
    \/ \E s \in SettingsInputs : updateSettings(s)
    \/ updateSettingsNoUser
    \/ updateSettingsSaved
    \/ Tick(SessionStepMs, SessionHorizonMs)

SessionSpec == SessionInit /\ [][SessionNext]_vars

\* ------------------------------------------------------------------------
\* ClipboardSpec: copyToClipboard and its clear timer
\* ------------------------------------------------------------------------
ClipboardNext ==
    \/ \E e \in SessionEmails, p \in SessionPasswords : login(e, p)
    \/ loginLookup
    \/ logout
    \/ \E x \in ClipboardTexts : copyToClipboard(x)
    \/ \E t \in timers : clipboardTimeout(t)
    \/ \E s \in SettingsInputs : updateSettings(s)
    \/ updateSettingsNoUser
    \/ updateSettingsSaved
    \/ Tick(SessionStepMs, SessionHorizonMs)

ClipboardSpec == SessionInit /\ [][ClipboardNext]_vars

\* ------------------------------------------------------------------------
\* LogoutSpec: the session with both of its timers (inactivity check and
\* clipboard clear) running, and logout from every state
\* ------------------------------------------------------------------------
LogoutNext ==
    \/ \E e \in SessionEmails, p \in SessionPasswords : login(e, p)
    \/ loginLookup
    \/ logout
    \/ lock
    \/ \E p \in SessionPasswords : unlock(p)
    \/ \E x \in ClipboardTexts : copyToClipboard(x)
    \/ \E t \in timers : clipboardTimeout(t)
    \/ \E t \in timers : autoLockCheck(t)
    \/ Tick(SessionStepMs, SessionHorizonMs)

LogoutSpec == SessionInit /\ [][LogoutNext]_vars

\* ------------------------------------------------------------------------
\* FairSessionSpec: SessionSpec with a clock that keeps running and a timer
\* service that runs every due callback
\* ------------------------------------------------------------------------
FairSessionSpec ==
    /\ SessionSpec
    /\ WF_vars(Tick(SessionStepMs, SessionHorizonMs))
    /\ WF_vars(\E t \in timers : autoLockCheck(t))

\* ------------------------------------------------------------------------
\* RegisterSpec: registration with valid and invalid question lists
\* ------------------------------------------------------------------------
RegisterNext ==
    \/ \E e \in Emails, q \in QuestionLists : register(e, Aa, q)
    \/ registerLookup
    \/ registerSaved
    \/ \E e \in Emails : login(e, Aa)
    \/ loginLookup
    \/ logout

RegisterSpec == Init /\ [][RegisterNext]_vars

\* ------------------------------------------------------------------------
\* RecoverySpec: register, then recover through the chain
\* ------------------------------------------------------------------------
RecoveryEmails == {"a@x.com"}

RecoveryQuestionLists == {ThreeQuestions, TwoQuestions}

\* answers handed to verify
AnswerInputs ==
    { <<Rex, Max, RexVariant>>, <<RexVariant, Max, Rex>>, <<Max, Max, Rex>>,
      <<Rex, Rex, Max>>, <<Rex, Max>> }

RecoveryStepMs == RecoveryStepMinutes * MsPerMinute
RecoveryHorizonMs == RecoveryHorizonMinutes * MsPerMinute

RecoveryNext ==
    \/ \E e \in RecoveryEmails, q \in RecoveryQuestionLists : register(e, Aa, q)
    \/ registerLookup
    \/ registerSaved
    \/ \E e \in RecoveryEmails : startRecovery(e)
    \/ startRecoveryThen
    \/ \E a \in AnswerInputs : verify(a)
    \/ reset
    \/ \E t \in timers : lockoutTimeout(t)
    \/ Tick(RecoveryStepMs, RecoveryHorizonMs)

RecoverySpec == Init /\ [][RecoveryNext]_vars

\* ------------------------------------------------------------------------
\* VerifySpec: the recovery manager over a store that already holds the
\* accounts of earlier registrations
\* ------------------------------------------------------------------------
\* the store: one account with three questions, one with two
VerifyUsers ==
    [e \in Emails |-> NewUser(e, Aa, IF e = "a@x.com" THEN ThreeQuestions ELSE TwoQuestions)]

VerifyInit == InitWith(VerifyUsers)

VerifyNext ==
    \/ \E e \in Emails : startRecovery(e)
    \/ startRecoveryThen
    \/ \E a \in AnswerInputs : verify(a)
    \/ reset
    \/ \E t \in timers : lockoutTimeout(t)
    \/ Tick(RecoveryStepMs, RecoveryHorizonMs)

VerifySpec == VerifyInit /\ [][VerifyNext]_vars

\* VerifySpec with a clock that keeps running and a timer service that runs
\* every due callback
FairVerifySpec ==
    /\ VerifySpec
    /\ WF_vars(Tick(RecoveryStepMs, RecoveryHorizonMs))
    /\ WF_vars(\E t \in timers : lockoutTimeout(t))

\* ========================================================================
\* Claims
\* ========================================================================
\* the three states of the session
SessionState ==
    IF user = NoUser THEN "Unauthenticated"
    ELSE IF isAuthenticated THEN "Authenticated" ELSE "Locked"

AutoLockTimers == {t \in timers : t.kind = "autoLock"}
ClipboardTimers == {t \in timers : t.kind = "clipboard"}
LockoutMs == LockoutMinutes * MsPerMinute

\* C1: once three verify calls of the current recovery flow have failed, every
\* verify call made before 15 minutes have passed since the third failure
\* returns a locked failure (the third failure itself included), never success.
C1_LockedFor15Minutes ==
    (last.op = "verify" /\ flow.thirdFailAt >= 0 /\ now < flow.thirdFailAt + LockoutMs)
        => last.res \in {"RecoveryLocked", "LockedFor15Minutes"}

\* C2: at most one inactivity-check timer is scheduled, and it is the one
\* the session holds the handle of.
C2_OneInactivityTimer ==
    /\ Cardinality(AutoLockTimers) <= 1
    /\ \A t \in AutoLockTimers : t.id = lockTimer

\* C2 witness: a second successful login in a row, made while the timer of
\* the first was scheduled, leaves exactly one timer.
C2_Witness ==
    /\ last.op = "login"
    /\ last.res = "ok"
    /\ last.preTimer
    /\ Cardinality(AutoLockTimers) = 1

\* the idle time has reached the configured threshold of an authenticated session
IdleReached == isAuthenticated /\ now - lastActivity >= autoLockMinutes * MsPerMinute

\* C3: an authenticated session whose idle time has reached the threshold is
\* eventually locked (or active again) with no caller action needed, and every
\* 'session-locked' event is dispatched by a step that takes the session from
\* Authenticated to Locked, once per such step.
C3_AutoLockOnce ==
    /\ (IdleReached /\ now + CheckIntervalMs <= SessionHorizonMs)
            ~> (~isAuthenticated \/ ~IdleReached)
    /\ [][dispatched' # dispatched =>
            /\ dispatched' = dispatched + 1
            /\ SessionState = "Authenticated"
            /\ SessionState' = "Locked"
            /\ last'.op = "autoLockCheck"]_vars

\* C3 witness: the inactivity check has locked the session and one event was dispatched.
C3_Witness ==
    /\ last.op = "autoLockCheck"
    /\ last.res = "locked"
    /\ SessionState = "Locked"
    /\ dispatched = 1

\* C4: at most one clipboard-clear timer is pending, due at the clear duration
\* after the last copyToClipboard; the timer overwrites the clipboard at most
\* once per copy, exactly at that deadline, and until then (unless logout
\* clears it) the copied text stays on the clipboard.
C4_ClipboardClearedOnce ==
    /\ Cardinality(ClipboardTimers) <= 1
    /\ \A t \in ClipboardTimers : t.id = clipboardTimer /\ t.due = copied.at + copied.delay
    /\ copied.clears <= 1
    /\ copied.clears = 1 => (clipboard = "" /\ copied.clearedAt = copied.at + copied.delay)
    /\ (copied.at >= 0 /\ copied.clears = 0 /\ ~copied.loggedOut) =>
            (clipboard # "" /\ ClipboardTimers # {} /\ now <= copied.at + copied.delay)

\* C4 witness: a copyToClipboard made while the timer of an earlier one was
\* pending, and the clipboard cleared by the timer after it.
C4_Witness ==
    /\ copied.replaced
    /\ copied.clears = 1
    /\ clipboard = ""

\* C5 as stated: login succeeds with the registered secret, fails with
\* InvalidCredential for every other secret, and with AccountNotFound for an
\* identifier without Account.
C5_LoginExactSecret ==
    last.op = "login" =>
        IF last.email \notin DOMAIN users THEN last.res = "AccountNotFound"
        ELSE IF last.secret = users[last.email].registered.password THEN last.res = "ok"
        ELSE last.res = "InvalidCredential"

\* C5 amended: login succeeds with the registered secret, fails with
\* InvalidCredential for every secret whose digest differs from the digest of
\* the registered secret, and with AccountNotFound for an identifier without Account.
C5_LoginByDigest ==
    last.op = "login" =>
        IF last.email \notin DOMAIN users THEN last.res = "AccountNotFound"
        ELSE LET registered == users[last.email].registered.password IN
             /\ last.secret = registered => last.res = "ok"
             /\ hashPasswordBody(last.secret) # hashPasswordBody(registered)
                    => last.res = "InvalidCredential"
             /\ last.res \in {"ok", "InvalidCredential"}

\* C5 witness: a login with another secret of another digest was refused.
C5_Witness ==
    /\ last.op = "login"
    /\ last.res = "InvalidCredential"
    /\ last.email \in DOMAIN users
    /\ last.secret # users[last.email].registered.password

\* exactly three questions, pairwise distinct in their text
ValidQuestions(qs) ==
    /\ Len(qs) = 3
    /\ \A i, j \in 1..Len(qs) : i # j => qs[i].question # qs[j].question

\* C6: every Account in the store has exactly three pairwise distinct questions
\* (register with fewer, or with a repeated question text, persists nothing).
C6_StoredQuestionsValid ==
    \A e \in DOMAIN users : ValidQuestions(users[e].securityQuestions)

\* x without its leading white space
RECURSIVE DropLeading(_)
DropLeading(x) ==
    IF x # <<>> /\ Head(x) \in WhiteSpace THEN DropLeading(Tail(x)) ELSE x

\* x without its trailing white space
RECURSIVE DropTrailing(_)
DropTrailing(x) ==
    IF x # <<>> /\ x[Len(x)] \in WhiteSpace THEN DropTrailing(SubSeq(x, 1, Len(x) - 1)) ELSE x

\* the characters c and d are the same letter in either case, or the same character
SameLetter(c, d) ==
    \/ c = d
    \/ c \in 65..90 /\ d = c + 32
    \/ d \in 65..90 /\ c = d + 32

\* a and b are equal up to letter case and surrounding white space
SameUpToCaseAndSpace(a, b) ==
    LET x == DropTrailing(DropLeading(a))
        y == DropTrailing(DropLeading(b))
    IN  /\ Len(x) = Len(y)
        /\ \A i \in 1..Len(x) : SameLetter(x[i], y[i])

\* C7: with no lockout active, verify on a chain initialized from a registered
\* Account returns success when every answer equals the registered answer up to
\* letter case and surrounding white space.
C7_RoundTrip ==
    ( /\ last.op = "verify"
      /\ ~last.preLocked
      /\ chain # <<>>
      /\ \A i \in 1..3 : SameUpToCaseAndSpace(AnswerAt(last.answers, i - 1), flow.answers[i]) )
        => last.res = "success"

\* C7 witness: a successful verify with answers that differ from the registered
\* ones in case and surrounding white space.
C7_Witness ==
    /\ last.op = "verify"
    /\ last.res = "success"
    /\ \E i \in 1..3 : last.answers[i] # flow.answers[i]

\* the 1-based position of the first answer that does not match its stored digest
FirstMismatch(c, answers) ==
    Min({i \in 1..Len(c) : recoveryHashBody(trim(toLowerCase(AnswerAt(answers, i - 1))))
                                # c[i].hashedAnswer})

\* C8: a failed verify that does not lock names the position of the first
\* answer that does not match, and only the handlers up to that position ran.
C8_FirstFailureReported ==
    (last.op = "verify" /\ last.res = "incorrect") =>
        /\ last.failedAt = FirstMismatch(chain, last.answers)
        /\ last.evaluated = 0..(last.failedAt - 1)

\* C8 witness: the first answer wrong and the later ones right: position 1.
C8_Witness ==
    /\ last.op = "verify"
    /\ last.res = "incorrect"
    /\ last.failedAt = 1
    /\ HandlerVerify(chain[2], AnswerAt(last.answers, 1))
    /\ HandlerVerify(chain[3], AnswerAt(last.answers, 2))

\* C9: the session state changes only by Unauthenticated -login-> Authenticated,
\* Authenticated -lock or idle timeout-> Locked, Locked -unlock-> Authenticated,
\* Authenticated/Locked -logout-> Unauthenticated; a Locked session is never
\* rebound to another Account.
C9_OnlyListedTransitions ==
    [][ /\ SessionState' # SessionState =>
            \/ /\ SessionState = "Unauthenticated" /\ SessionState' = "Authenticated"
               /\ last'.op = "login" /\ last'.res = "ok"
            \/ /\ SessionState = "Authenticated" /\ SessionState' = "Locked"
               /\ last'.op \in {"lock", "autoLockCheck"}
            \/ /\ SessionState = "Locked" /\ SessionState' = "Authenticated"
               /\ last'.op = "unlock" /\ last'.res = "ok"
            \/ /\ SessionState \in {"Authenticated", "Locked"}
               /\ SessionState' = "Unauthenticated"
               /\ last'.op = "logout"
        /\ SessionState = "Locked" => user'.email \in {user.email, ""} ]_vars

\* C10: the session is authenticated only with an Account bound, and a step
\* that sets the authenticated flag is a successful login or unlock whose
\* secret has the digest of the bound Account's credential.
C10_AuthenticatedByDigestMatch ==
    /\ [](isAuthenticated => user # NoUser)
    /\ []((last.op \in {"login", "unlock"} /\ last.res = "ok") =>
            hashPasswordBody(last.secret) = user.masterPassword)
    /\ [][(isAuthenticated' /\ ~isAuthenticated) =>
            /\ last'.op \in {"login", "unlock"}
            /\ last'.res = "ok"
            /\ hashPasswordBody(last'.secret) = user'.masterPassword]_vars

\* C10 witness: a locked session authenticated again by unlock.
C10_Witness ==
    /\ last.op = "unlock"
    /\ last.res = "ok"
    /\ isAuthenticated
    /\ user # NoUser

\* C11: a lock() step clears the authenticated flag and leaves the bound
\* Account as it was, and an unlock that directly follows it with a secret of
\* the bound Account's credential digest succeeds; after logout() no Account
\* is bound and the flag is clear, and an unlock that directly follows it
\* fails with NoActiveSession whatever the secret.
C11_LockKeepsLogoutClears ==
    /\ [][(last'.op = "lock" /\ last' # last) =>
            (~isAuthenticated' /\ user' = user)]_vars
    /\ [][(last.op = "lock" /\ user # NoUser /\ last'.op = "unlock"
           /\ hashPasswordBody(last'.secret) = user.masterPassword) =>
            (last'.res = "ok" /\ isAuthenticated' /\ user' = user)]_vars
    /\ [](last.op = "logout" => (user = NoUser /\ ~isAuthenticated))
    /\ [][(last.op = "logout" /\ last'.op = "unlock") =>
            (last'.res = "NoActiveSession" /\ ~isAuthenticated' /\ user' = NoUser)]_vars

\* C11 witness: a Locked session (Account bound, no inactivity timer before
\* the call) unlocked with the secret the Account was registered with.
C11_Witness ==
    /\ last.op = "unlock"
    /\ last.res = "ok"
    /\ ~last.preTimer
    /\ last.secret = user.registered.password
    /\ isAuthenticated

\* C12: right after logout() no Account is bound, the flag is clear, neither
\* an inactivity-check timer nor a clipboard-clear timer is pending or held,
\* and the clipboard is empty; no inactivity check is pending while no Account
\* is bound, and no clipboard-clear timer fires between a logout and the next
\* copyToClipboard, so no timer scheduled before the logout fires after it.
C12_LogoutClearsAll ==
    /\ [](last.op = "logout" =>
            /\ user = NoUser
            /\ ~isAuthenticated
            /\ AutoLockTimers = {} /\ lockTimer = NoTimer
            /\ ClipboardTimers = {} /\ clipboardTimer = NoTimer
            /\ clipboard = "")
    /\ [](user = NoUser => AutoLockTimers = {})
    /\ [][(copied.loggedOut /\ copied'.loggedOut) =>
            (copied'.clears = copied.clears /\ ClipboardTimers' = {})]_vars

\* C12 witness: logout of a session that had its inactivity timer scheduled
\* and a copied value whose clear timer had not fired yet.
C12_Witness ==
    /\ last.op = "logout"
    /\ last.preTimer
    /\ copied.loggedOut
    /\ copied.at >= 0
    /\ copied.clears = 0
    /\ now > 0

\* C13: an unlock step fails with NoActiveSession when no Account is bound,
\* fails with InvalidCredential when the digest of the secret differs from
\* the bound Account's credential digest, and otherwise succeeds: the flag is
\* set, the activity time is the current time, and exactly one inactivity
\* check is scheduled, one check period from now, under the held handle.
C13_UnlockOutcomes ==
    [][(last'.op = "unlock" /\ <<last, sessionVars, timers>>' # <<last, sessionVars, timers>>) =>
        IF user = NoUser
        THEN last'.res = "NoActiveSession"
        ELSE IF hashPasswordBody(last'.secret) # user.masterPassword
        THEN last'.res = "InvalidCredential"
        ELSE /\ last'.res = "ok"
             /\ isAuthenticated'
             /\ user' = user
             /\ lastActivity' = now
             /\ AutoLockTimers' = {[id |-> lockTimer', kind |-> "autoLock",
                                    due |-> now + CheckIntervalMs]}]_vars

\* C13 witness: a Locked session unlocked some time after its last activity.
C13_Witness ==
    /\ last.op = "unlock"
    /\ last.res = "ok"
    /\ ~last.preTimer
    /\ now > 0
    /\ lastActivity = now
    /\ AutoLockTimers = {[id |-> lockTimer, kind |-> "autoLock", due |-> now + CheckIntervalMs]}

\* C14: an updateActivity() step made while the session is not authenticated
\* changes no Session field, the activity time included; made while the
\* session is Authenticated it sets the activity time to the current time and
\* changes no other Session field and no timer.
C14_UpdateActivityFrame ==
    [][(last'.op = "updateActivity" /\ <<last, lastActivity>>' # <<last, lastActivity>>) =>
        /\ UNCHANGED <<user, isAuthenticated, autoLockMinutes, lockTimer, clipboardTimer,
                       clipboardClearMinutes, timers>>
        /\ lastActivity' = IF isAuthenticated THEN now ELSE lastActivity]_vars

\* C15: when the store lookup of a register call finds an Account under the
\* identifier, the call fails with DuplicateAccount, issues no store write and
\* leaves the store as it is; a register that has failed with DuplicateAccount
\* names an identifier whose Account is stored.
C15_DuplicateAccount ==
    /\ [][(registerLookup /\ Head(dbQueue).email \in DOMAIN users) =>
            /\ last'.op = "register"
            /\ last'.res = "DuplicateAccount"
            /\ last'.email = Head(dbQueue).email
            /\ users' = users
            /\ dbQueue' = Tail(dbQueue)]_vars
    /\ []((last.op = "register" /\ last.res = "DuplicateAccount") =>
            last.email \in DOMAIN users)

\* C15 witness: a register with another secret for a stored identifier has
\* failed, and the stored credential digest is still that of the first secret.
C15_Witness ==
    /\ last.op = "register"
    /\ last.res = "DuplicateAccount"
    /\ last.email \in DOMAIN users
    /\ last.secret # users[last.email].registered.password
    /\ users[last.email].masterPassword = hashPasswordBody(users[last.email].registered.password)
    /\ hashPasswordBody(last.secret) # users[last.email].masterPassword

\* C16: no step of a register call (the call, the completion of its store
\* lookup, the completion of its store write), successful or failed, changes
\* the Session: bound Account, authenticated flag, activity time, timeout
\* settings, timer handles and scheduled timers stay as they are.
C16_RegisterLeavesSession ==
    [][((\E e \in Emails, p \in Passwords, q \in QuestionLists : register(e, p, q))
        \/ registerLookup \/ registerSaved) =>
            UNCHANGED <<user, isAuthenticated, lastActivity, autoLockMinutes,
                        clipboardClearMinutes, lockTimer, clipboardTimer, timers>>]_vars

\* C16 witness: a register for another identifier has succeeded while the
\* session was Authenticated, and the session is still bound to its Account.
C16_Witness ==
    /\ last.op = "register"
    /\ last.res = "ok"
    /\ isAuthenticated
    /\ user # NoUser
    /\ user.email # last.email
    /\ lockTimer # NoTimer

\* C17: after a successful login for an Account whose settings no
\* updateSettings has changed (none runs in this specification), the
\* inactivity threshold is 5 minutes and the clipboard-clear duration 1 minute.
C17_LoginDefaults ==
    (last.op = "login" /\ last.res = "ok") =>
        /\ autoLockMinutes = LoginDefaultAutoLockMinutes
        /\ clipboardClearMinutes = LoginDefaultClipboardClearMinutes

\* every answer matches the digest stored at its position of the chain
AllMatch(c, answers) ==
    \A i \in 1..Len(c) :
        recoveryHashFunction(trim(toLowerCase(AnswerAt(answers, i - 1)))) = c[i].hashedAnswer

\* C18: a verify step whose answers do not all match adds exactly one to the
\* attempt counter; while the counter is then below 3 it reports the first
\* wrong position and 3 minus the counter as the attempts left, sets no
\* lockout and schedules nothing; when the counter reaches 3 it sets the
\* lockout, schedules its expiry 15 minutes from now and reports a
\* locked-style failure.
C18_MismatchCounts ==
    [][(/\ last'.op = "verify"
        /\ <<last, attempts, locked, timers>>' # <<last, attempts, locked, timers>>
        /\ ~locked
        /\ chain # <<>>
        /\ ~AllMatch(chain, last'.answers)) =>
            /\ attempts' = attempts + 1
            /\ IF attempts' < 3
               THEN /\ last'.res = "incorrect"
                    /\ last'.failedAt = FirstMismatch(chain, last'.answers)
                    /\ last'.attemptsLeft = 3 - attempts'
                    /\ ~locked'
                    /\ timers' = timers
               ELSE /\ attempts' = 3
                    /\ last'.res = "LockedFor15Minutes"
                    /\ locked'
                    /\ \E t \in timers' :
                        /\ t.kind = "lockout"
                        /\ t.due = now + 15 * MsPerMinute
                        /\ timers' = timers \cup {t}
                        /\ t \notin timers]_vars

\* C18 witness: the third failed verify of a flow, made some time after the
\* flow began, has set the lockout and scheduled its expiry 15 minutes ahead.
C18_Witness ==
    /\ last.op = "verify"
    /\ last.res = "LockedFor15Minutes"
    /\ attempts = 3
    /\ locked
    /\ now > 0
    /\ \E t \in timers : t.kind = "lockout" /\ t.due = now + 15 * MsPerMinute

\* C19: a verify step that returns success leaves the attempt counter, the
\* lockout flag and the scheduled timers as they are, so failures counted
\* before it still count: a failed verify that directly follows a success
\* made with two failures counted sets the lockout.
C19_SuccessKeepsCount ==
    /\ [][(last'.op = "verify" /\ last'.res = "success" /\ last' # last) =>
            (attempts' = attempts /\ locked' = locked /\ timers' = timers
             /\ chain' = chain)]_vars
    /\ [][(/\ last.op = "verify" /\ last.res = "success" /\ attempts = 2
           /\ last'.op = "verify" /\ last'.res # "success") =>
            (locked' /\ attempts' = 3 /\ last'.res = "LockedFor15Minutes")]_vars

\* C19 witness: fail, fail, success: the success has left the counter at the
\* two failures counted before it, one failure short of the lockout.
C19_Witness ==
    /\ last.op = "verify"
    /\ last.res = "success"
    /\ attempts = 2
    /\ flow.fails = 2
    /\ ~locked

\* C20: a verify step made while the lockout is active fails with
\* RecoveryLocked whatever the answers; made with no lockout and no chain it
\* fails with RecoveryNotInitialized; in both cases no handler evaluates an
\* answer, and the attempt counter, the lockout flag, the chain and the
\* scheduled timers are left as they are.
C20_LockedOrNotInitialized ==
    [][(/\ last'.op = "verify"
        /\ <<last, attempts, locked, chain, timers>>' # <<last, attempts, locked, chain, timers>>
        /\ (locked \/ chain = <<>>)) =>
            /\ last'.res = IF locked THEN "RecoveryLocked" ELSE "RecoveryNotInitialized"
            /\ last'.evaluated = {}
            /\ last'.failedAt = 0
            /\ UNCHANGED <<attempts, locked, chain, questions, timers>>]_vars

\* C20 witness: a verify with all answers correct, made during a lockout,
\* has failed with RecoveryLocked.
C20_Witness ==
    /\ last.op = "verify"
    /\ last.res = "RecoveryLocked"
    /\ last.preLocked
    /\ locked
    /\ attempts = 3
    /\ chain # <<>>
    /\ AllMatch(chain, last.answers)

\* C21: when the account startRecovery has looked up holds fewer than 3
\* question/digest pairs, initialize fails with InsufficientFactors and the
\* chain, the question list, the attempt counter, the lockout flag and the
\* scheduled timers are left as they are.
C21_InsufficientFactors ==
    [][(/\ startRecoveryThen
        /\ getUser(Head(dbQueue).email) # NoUser
        /\ Len(getUser(Head(dbQueue).email).securityQuestions) < 3) =>
            /\ last'.op = "initialize"
            /\ last'.res = "InsufficientFactors"
            /\ UNCHANGED <<chain, questions, attempts, locked, timers>>]_vars

\* C21 witness: initialize has failed for an account with two questions
\* while the chain of an earlier flow, with failures counted, was in place.
C21_Witness ==
    /\ last.op = "initialize"
    /\ last.res = "InsufficientFactors"
    /\ Len(users[last.email].securityQuestions) = 2
    /\ Len(chain) = 3
    /\ attempts > 0

\* C22: right after a successful initialize the attempt counter is 0 and the
\* lockout is inactive, whatever they were before, and the question list it
\* returns has one entry per question of the account, each holding only the
\* position and the text of the question, in the order of the chain.
C22_InitializeResets ==
    (last.op = "initialize" /\ last.res = "ok") =>
        /\ attempts = 0
        /\ ~locked
        /\ Len(chain) = 3
        /\ Len(questions) = Len(users[last.email].securityQuestions)
        /\ \A i \in 1..Len(questions) :
            /\ DOMAIN questions[i] = {"index", "question"}
            /\ questions[i].index = i - 1
            /\ questions[i].question = users[last.email].securityQuestions[i].question
        /\ \A i \in 1..Len(chain) :
            /\ questions[i].question = chain[i].question
            /\ questions[i].index = chain[i].index

\* C22 witness: initialize has succeeded while a lockout was active.
C22_Witness ==
    /\ last.op = "initialize"
    /\ last.res = "ok"
    /\ last.preLocked
    /\ ~locked
    /\ attempts = 0

\* C23: right after reset() there is no chain, the question list is empty,
\* the attempt counter is 0 and the lockout is inactive; a verify made while
\* there is no chain fails with RecoveryNotInitialized, and only a successful
\* initialize brings a chain back.
C23_ResetClears ==
    /\ [](last.op = "reset" =>
            (chain = <<>> /\ questions = <<>> /\ attempts = 0 /\ ~locked))
    /\ []((last.op = "verify" /\ chain = <<>>) => last.res = "RecoveryNotInitialized")
    /\ [][(chain = <<>> /\ chain' # <<>>) =>
            (last'.op = "initialize" /\ last'.res = "ok")]_vars

\* C23 witness: reset() called during a lockout, with its expiry timer still
\* scheduled, has cleared chain, counter and lockout.
C23_Witness ==
    /\ last.op = "reset"
    /\ last.preLocked
    /\ \E t \in timers : t.kind = "lockout"
    /\ chain = <<>>
    /\ ~locked

\* C24: while the lockout is active, the expiry timer scheduled when it was
\* set is pending, due no later than 15 minutes from now; every lockout whose
\* expiry lies within the horizon of the clock eventually becomes inactive
\* with no caller action needed; and a verify made with no lockout active and
\* all answers correct returns success.
C24_LockoutSelfClearing ==
    /\ [](locked => \E t \in timers : t.kind = "lockout" /\ t.due <= now + LockoutMs)
    /\ ((locked /\ \E t \in timers : t.kind = "lockout" /\ t.due <= RecoveryHorizonMs)
            ~> ~locked)
    /\ []((last.op = "verify" /\ ~last.preLocked /\ chain # <<>>
           /\ AllMatch(chain, last.answers)) => last.res = "success")

\* C24 witness: the expiry timer has cleared a lockout 15 minutes after the
\* third failure of the flow, and the chain is still in place.
C24_Witness ==
    /\ last.op = "lockoutTimeout"
    /\ last.preLocked
    /\ ~locked
    /\ attempts = 0
    /\ chain # <<>>
    /\ now = flow.thirdFailAt + LockoutMs

\* C25: every step that dispatches 'session-locked' dispatches it once and is
\* an inactivity check that takes the session from Authenticated to Locked,
\* the Account staying bound; no lock(), logout() or other operation
\* dispatches it, and none is dispatched while the session is Locked or
\* Unauthenticated.
C25_NotificationOnlyOnAutoLock ==
    [][dispatched' # dispatched =>
        /\ dispatched' = dispatched + 1
        /\ last'.op = "autoLockCheck"
        /\ last'.res = "locked"
        /\ SessionState = "Authenticated"
        /\ SessionState' = "Locked"
        /\ user' = user
        /\ now - lastActivity >= autoLockMinutes * MsPerMinute]_vars

\* C25 witness: a session whose last activity came after the clock had advanced
\* has been locked by the inactivity check, with one notification in all.
C25_Witness ==
    /\ last.op = "autoLockCheck"
    /\ last.res = "locked"
    /\ dispatched = 1
    /\ SessionState = "Locked"
    /\ lastActivity > 0

\* ------------------------------------------------------------------------
\* PasswordSpec: password change and login on a store with one Account whose
\* settings were changed after registration (time stands still)
\* ------------------------------------------------------------------------
PasswordUsers ==
    [e \in SessionEmails |->
        [NewUser(e, Aa, ThreeQuestions) EXCEPT
            !.settings.autoLockMinutes = LoginDefaultAutoLockMinutes]]

PasswordInit == InitWith(PasswordUsers)

PasswordNext ==
    \/ \E e \in Emails, p \in Passwords : login(e, p)
    \/ loginLookup
    \/ logout
    \/ \E e \in Emails, p \in Passwords : updatePassword(e, p)
    \/ updatePasswordLookup
    \/ updatePasswordSaved

PasswordSpec == PasswordInit /\ [][PasswordNext]_vars

\* the completion of an updatePassword for an existing Account
UpdatePasswordCompletes ==
    /\ updatePasswordSaved
    /\ last'.email \in DOMAIN users

\* the completion of an updatePassword for an identifier without Account
UpdatePasswordNoAccount ==
    /\ updatePasswordLookup
    /\ Head(dbQueue).email \notin DOMAIN users

\* the store after updatePassword differs from the store before it at most in
\* the credential digest of the one Account
OnlyDigestChanged ==
    /\ DOMAIN users' = DOMAIN users
    /\ \A e \in DOMAIN users :
        IF e = last'.email
        THEN /\ users'[e].email = users[e].email
             /\ users'[e].securityQuestions = users[e].securityQuestions
             /\ users'[e].settings = users[e].settings
             /\ users'[e].registered.answers = users[e].registered.answers
        ELSE users'[e] = users[e]

\* the outcome of a login for an existing Account is decided by the stored
\* digest: it succeeds when the digest of the secret equals it and fails with
\* InvalidCredential otherwise
LoginDecidedByStoredDigest ==
    (last.op = "login" /\ last.email \in DOMAIN users) =>
        IF hashPasswordBody(last.secret) = users[last.email].masterPassword
        THEN last.res = "ok"
        ELSE last.res = "InvalidCredential"

\* C26 as stated: when updatePassword completes for an existing Account the
\* stored digest is digest(newSecret) and nothing else of the store changed,
\* and the previous secret (when it is another secret than the new one) no
\* longer has the stored digest; for an identifier without Account the store
\* is unchanged; every login is decided by the stored digest, so that a login
\* with the new secret succeeds and one with the previous secret fails with
\* InvalidCredential.
C26_PreviousSecretRefused ==
    /\ [][/\ UpdatePasswordCompletes =>
                /\ users'[last'.email].masterPassword = hashPasswordBody(last'.secret)
                /\ OnlyDigestChanged
                /\ users[last'.email].registered.password # last'.secret =>
                        hashPasswordBody(users[last'.email].registered.password)
                            # users'[last'.email].masterPassword
          /\ UpdatePasswordNoAccount => users' = users]_vars
    /\ []LoginDecidedByStoredDigest

\* C26 amended: as stated, but the previous secret no longer has the stored
\* digest (a login with it fails with InvalidCredential) when its digest
\* differs from the digest of the new secret, and it still has the stored
\* digest (a login with it succeeds) when the two digests are equal.
C26_PreviousDigestRefused ==
    /\ [][/\ UpdatePasswordCompletes =>
                /\ users'[last'.email].masterPassword = hashPasswordBody(last'.secret)
                /\ OnlyDigestChanged
                /\ (hashPasswordBody(users[last'.email].registered.password)
                        # users'[last'.email].masterPassword)
                    <=> (hashPasswordBody(users[last'.email].registered.password)
                            # hashPasswordBody(last'.secret))
          /\ UpdatePasswordNoAccount => users' = users]_vars
    /\ []LoginDecidedByStoredDigest

\* C26 witness: after the secret was changed from "Aa" to a secret of another
\* digest, a login with "Aa" was refused and the stored digest is the digest
\* of the new secret; the Account still has its three questions and its
\* changed settings.
C26_Witness ==
    /\ last.op = "login"
    /\ last.res = "InvalidCredential"
    /\ last.email \in DOMAIN users
    /\ last.secret = Aa
    /\ users[last.email].registered.password = Ab
    /\ users[last.email].masterPassword = hashPasswordBody(Ab)
    /\ users[last.email].settings.autoLockMinutes = LoginDefaultAutoLockMinutes
    /\ Len(users[last.email].securityQuestions) = 3

\* ------------------------------------------------------------------------
\* ProxySpec: one SensitiveDataProxy and the calls on it
\* ------------------------------------------------------------------------
\* "", "ab", "abc", "abcde", "12 345", "1-2345"
ProxyValues ==
    { <<>>, <<97, 98>>, <<97, 98, 99>>, <<97, 98, 99, 100, 101>>,
      <<49, 50, 32, 51, 52, 53>>, <<49, 45, 50, 51, 52, 53>> }

\* the types app.js masks fields with, and one without a masking rule
ProxyTypes == MaskTypes \cup {"note"}

ProxyNext ==
    \/ \E v \in ProxyValues, t \in ProxyTypes : newSensitiveDataProxy(v, t)
    \/ getValue
    \/ getMaskedValue
    \/ getRealValue
    \/ toggle
    \/ isMasked

ProxySpec == Init /\ [][ProxyNext]_vars

\* a proxy is masked when created
CreatedMasked == seen.op = "new" => proxy.masked

\* toggle flips the masked state and returns what getValue returns after it
ToggleFlips ==
    seen.op = "toggle" =>
        /\ proxy.masked = ~seen.preMasked
        /\ seen.ret = getValueOf(proxy)

\* getValue, toggle, toggle: the state and the returned value are those of getValue
TwoTogglesRestore ==
    seen.run = 2 =>
        /\ proxy.masked = seen.masked0
        /\ seen.ret = seen.ret0

\* while masked, getValue returns the masked form
MaskedFormReturned ==
    (seen.op = "getValue" /\ proxy.masked) => seen.ret = getMaskedValueOf(proxy)

\* C28: a SensitiveDataProxy is masked when created; while masked, getValue
\* returns the masked form, which is never the real value (of a non-empty
\* value); toggle flips the masked state; after two consecutive toggles the
\* state and the returned value are those before them.
C28_MaskedNeverReal ==
    /\ CreatedMasked
    /\ MaskedFormReturned
    /\ (seen.op = "getValue" /\ proxy.masked /\ proxy.value # <<>>) => seen.ret # proxy.value
    /\ ToggleFlips
    /\ TwoTogglesRestore

\* ------------------------------------------------------------------------
\* FaultSpec: the operations on a store and a clipboard that can fail
\* (time stands still)
\* ------------------------------------------------------------------------
FaultNext ==
    \/ register("b@x.com", Ab, ThreeQuestions)
    \/ registerLookup
    \/ registerSaved
    \/ \E e \in SessionEmails, p \in SessionPasswords : login(e, p)
    \/ loginLookup
    \/ \E s \in SettingsInputs : updateSettings(s)
    \/ updateSettingsSaved
    \/ \E e \in SessionEmails : updatePassword(e, Ab)
    \/ updatePasswordLookup
    \/ updatePasswordSaved
    \/ requestError
    \/ \E x \in ClipboardTexts : copyToClipboard(x)
    \/ \E x \in ClipboardTexts : copyToClipboardRejected(x)
    \/ \E x \in ClipboardTexts : copyToClipboardUnavailable(x)

FaultSpec == SessionInit /\ [][FaultNext]_vars

\* C27: the operation during which a collaborator failed (a store request of
\* register, login, updateSettings or updatePassword, or the clipboard write
\* of copyToClipboard) failed towards its caller; the failed request is not
\* issued again.
C27_FaultsSurfaced ==
    /\ [](fault.of # "none" => fault.outcome = "failed")
    /\ [][requestError => dbQueue' = Tail(dbQueue)]_vars

\* t is the timer scheduled by the lockout that is active now
TimerOfActiveLockout(t) ==
    /\ locked
    /\ flow.thirdFailAt >= 0
    /\ t.due = flow.thirdFailAt + LockoutMs

\* C29: the firing of a lockout timer that is not the timer of the active
\* lockout (its lockout was superseded by reset or initialize) leaves the
\* attempt counter and the lockout flag as they are.
C29_StaleTimerInert ==
    [][\A t \in timers :
        (lockoutTimeout(t) /\ ~TimerOfActiveLockout(t))
            => (attempts' = attempts /\ locked' = locked)]_vars

\* the lockout timers not yet due: each was scheduled by a third failed verify
\* less than 15 minutes ago
PendingLockouts == {t \in timers : t.kind = "lockout" /\ t.due > now}

\* C30: while less than 15 minutes have passed since a third failed verify, no
\* verify is evaluated, whatever startRecovery (initialize) and reset steps
\* were made in between: a verify other than that third failure returns the
\* locked or the not-initialized failure with no handler asked, and a further
\* third failure cannot happen.
C30_NoBypassByRestart ==
    last.op = "verify" =>
        IF last.res = "LockedFor15Minutes"
        THEN Cardinality(PendingLockouts) <= 1
        ELSE PendingLockouts # {} =>
                /\ last.res \in {"RecoveryLocked", "RecoveryNotInitialized"}
                /\ last.evaluated = {}

\* ------------------------------------------------------------------------
\* OverlapSpec: overlapping startRecovery calls for two Accounts with three
\* questions each and different answers (time stands still)
\* ------------------------------------------------------------------------
\* the questions of ThreeQuestions with other answers
OtherQuestions == <<QA("pet", Max), QA("city", Rex), QA("school", Max)>>

OverlapUsers ==
    [e \in Emails |-> NewUser(e, Aa, IF e = "a@x.com" THEN ThreeQuestions ELSE OtherQuestions)]

OverlapInit == InitWith(OverlapUsers)

\* the right answers of a@x.com, the right answers of b@x.com, wrong answers
OverlapAnswers == { <<Rex, Max, RexVariant>>, <<Max, Rex, Max>>, <<Rex, Rex, Rex>> }

OverlapNext ==
    \/ \E e \in Emails : startRecoveryClick(e)
    \/ overtake
    \/ startRecoveryThen
    \/ \E a \in OverlapAnswers : verify(a)
    \/ reset

OverlapSpec == OverlapInit /\ [][OverlapNext]_vars

\* C31: whenever verify returns success, recoveryEmail names an Account and the
\* chain is the chain of that Account's questions.
C31_SameIdentifier ==
    [][((\E a \in OverlapAnswers : verify(a)) /\ last'.res = "success") =>
        /\ recoveryEmail \in DOMAIN users
        /\ chain = BuildChain(users[recoveryEmail].securityQuestions)]_vars

\* ------------------------------------------------------------------------
\* RaceSpec: overlapping register calls on an empty store (time stands still)
\* ------------------------------------------------------------------------
RaceNext ==
    \/ \E e \in Emails, p \in SessionPasswords : registerOverlapping(e, p, ThreeQuestions)
    \/ registerLookup
    \/ registerSaved
    \/ \E e \in Emails, p \in SessionPasswords : login(e, p)
    \/ loginLookup

RaceSpec == Init /\ [][RaceNext]_vars

\* C32: a register call writes its Account and returns success only when no
\* Account with its identifier is stored, so that of the register calls with
\* one identifier at most one succeeds and its Account is the stored one.
C32_OneRegistrationWins ==
    [][registerSaved =>
        /\ Head(dbQueue).email \notin DOMAIN users
        /\ users'[Head(dbQueue).email] = Head(dbQueue).rec]_vars

\* ------------------------------------------------------------------------
\* ChainSpec: recovery for an Account stored with four questions and for one
\* stored with three (time stands still)
\* ------------------------------------------------------------------------
FourQuestions == <<QA("pet", Rex), QA("city", Max), QA("school", RexVariant), QA("car", Max)>>

ChainUsers ==
    [e \in Emails |-> NewUser(e, Aa, IF e = "a@x.com" THEN FourQuestions ELSE ThreeQuestions)]

ChainInit == InitWith(ChainUsers)

\* all four right, the fourth wrong, the fourth missing, the second wrong
ChainAnswers ==
    { <<Rex, Max, Rex, Max>>, <<Rex, Max, Rex, Rex>>, <<Rex, Max, Rex>>, <<Rex, Rex, Rex, Max>> }

ChainNext ==
    \/ \E e \in Emails : startRecovery(e)
    \/ startRecoveryThen
    \/ \E a \in ChainAnswers : verify(a)
    \/ reset

ChainSpec == ChainInit /\ [][ChainNext]_vars

\* the positions of the pairs initialize was given at which the answer does
\* not match the stored digest
WrongPositions(pairs, answers) ==
    {k \in 1..Len(pairs) :
        recoveryHashFunction(trim(toLowerCase(AnswerAt(answers, k - 1)))) # pairs[k].answer}

\* C33: after initialize with the N >= 3 pairs of an Account, an evaluated
\* verify returns success only if the answer at each of the N positions
\* matches, and otherwise reports the first position with a wrong answer.
C33_ChainOfAllPairs ==
    \A e \in DOMAIN users :
        (/\ last.op = "verify"
         /\ last.res \in {"success", "incorrect", "LockedFor15Minutes"}
         /\ Len(questions) = Len(users[e].securityQuestions)) =>
            LET wrong == WrongPositions(users[e].securityQuestions, last.answers) IN
            IF wrong = {} THEN last.res = "success"
            ELSE last.res # "success" /\ last.failedAt = Min(wrong)

\* ------------------------------------------------------------------------
\* IdleSpec: the session with a clock finer than the inactivity-check period,
\* so that activity and checks are out of step
\* ------------------------------------------------------------------------
IdleStepMs == CheckIntervalMs \div IdleStepsPerPeriod

IdleNext ==
    \/ \E e \in SessionEmails : login(e, Aa)
    \/ loginLookup
    \/ lock
    \/ unlock(Aa)
    \/ updateActivity
    \/ \E t \in timers : autoLockCheck(t)
    \/ Tick(IdleStepMs, SessionHorizonMs)

IdleSpec == SessionInit /\ [][IdleNext]_vars

\* the idle time and the configured threshold
IdleMs == now - lastActivity
ThresholdMs == autoLockMinutes * MsPerMinute

\* C34: an inactivity check of an Authenticated session locks it exactly when
\* the idle time has reached the threshold at that check, and an Authenticated
\* session never has an idle time of the threshold plus one check period.
C34_LockedWithinOnePeriod ==
    /\ [][\A t \in timers :
            (autoLockCheck(t) /\ SessionState = "Authenticated") =>
                (SessionState' = "Locked" <=> IdleMs >= ThresholdMs)]_vars
    /\ [](SessionState = "Authenticated" => IdleMs < ThresholdMs + CheckIntervalMs)

\* C34 witness: an activity stamp between two checks, the session still
\* Authenticated at the check where the idle time was below the threshold, and
\* locked by the next check, less than a period after the threshold was reached.
C34_Witness ==
    /\ last.op = "autoLockCheck"
    /\ last.res = "locked"
    /\ SessionState = "Locked"
    /\ lastActivity % CheckIntervalMs # 0
    /\ IdleMs > ThresholdMs
    /\ IdleMs < ThresholdMs + CheckIntervalMs

\* ------------------------------------------------------------------------
\* SettingsSpec: a session, password changes and settings changes on one
\* stored Account (time stands still)
\* ------------------------------------------------------------------------
SettingsNext ==
    \/ \E e \in SessionEmails, p \in SessionPasswords : login(e, p)
    \/ loginLookup
    \/ lock
    \/ \E p \in SessionPasswords : unlock(p)
    \/ \E e \in SessionEmails, p \in SessionPasswords : updatePassword(e, p)
    \/ updatePasswordLookup
    \/ updatePasswordSaved
    \/ \E s \in SettingsInputs : updateSettings(s)
    \/ updateSettingsSaved

SettingsSpec == SessionInit /\ [][SettingsNext]_vars

\* C35: the store write of updateSettings leaves the stored credential digest
\* and the stored questions of the Account as they were just before the write.
C35_SettingsWriteKeepsDigest ==
    [][updateSettingsSaved =>
        LET e == Head(dbQueue).email IN
        /\ e \in DOMAIN users
        /\ users'[e].masterPassword = users[e].masterPassword
        /\ users'[e].securityQuestions = users[e].securityQuestions]_vars

\* C36: unlock of a Locked session succeeds exactly when the digest of the
\* secret is the credential digest the store holds for the bound Account, and
\* fails with InvalidCredential otherwise; so after a completed updatePassword
\* the new secret unlocks and the previous one does not.
C36_UnlockByStoredDigest ==
    [][\A p \in SessionPasswords :
        (unlock(p) /\ SessionState = "Locked" /\ user.email \in DOMAIN users) =>
            IF hashPasswordBody(p) = users[user.email].masterPassword
            THEN last'.res = "ok"
            ELSE last'.res = "InvalidCredential"]_vars

\* ------------------------------------------------------------------------
\* VaultSpec: the session and the vault of one Account (time stands still)
\* ------------------------------------------------------------------------
VaultData == {"d1", "d2"}

VaultNext ==
    \/ \E e \in SessionEmails : login(e, Aa)
    \/ loginLookup
    \/ logout
    \/ lock
    \/ unlock(Aa)
    \/ getAllItems
    \/ \E i \in 1..MaxItems : getItemById(i)
    \/ \E d \in VaultData : createItem(d)
    \/ \E i \in 1..MaxItems, d \in VaultData : updateItem(i, d)
    \/ \E i \in 1..MaxItems : deleteItem(i)

VaultSpec == SessionInit /\ [][VaultNext]_vars

\* C37: a getAllItems, getItemById, createItem, updateItem or deleteItem made
\* while the session is Locked or Unauthenticated fails, returns no item and
\* changes no item.
C37_VaultOnlyWhileAuthenticated ==
    (vaultLast.op # "none" /\ vaultLast.session # "Authenticated") =>
        /\ vaultLast.res # "ok"
        /\ vaultLast.returned = {}
        /\ ~vaultLast.changed

\* ------------------------------------------------------------------------
\* FailSpec: LogoutSpec with logins for an identifier without Account
\* ------------------------------------------------------------------------
\* the right secret, a wrong secret, and an identifier without Account
FailLogins == {<<"a@x.com", Aa>>, <<"a@x.com", Ab>>, <<"b@x.com", Aa>>}

FailNext ==
    \/ \E c \in FailLogins : login(c[1], c[2])
    \/ loginLookup
    \/ logout
    \/ lock
    \/ \E p \in SessionPasswords : unlock(p)
    \/ \E x \in ClipboardTexts : copyToClipboard(x)
    \/ \E t \in timers : clipboardTimeout(t)
    \/ \E t \in timers : autoLockCheck(t)
    \/ Tick(SessionStepMs, SessionHorizonMs)

FailSpec == SessionInit /\ [][FailNext]_vars

\* C38: a login that fails with AccountNotFound or InvalidCredential and an
\* unlock that fails with NoActiveSession or InvalidCredential leave the bound
\* Account, the authenticated flag, the activity timestamp, the timeout
\* settings, the timer handles and the scheduled timers as they were.
C38_FailureLeavesSession ==
    [][/\ (loginLookup /\ last'.res \in {"AccountNotFound", "InvalidCredential"})
            => UNCHANGED <<sessionVars, timers>>
       /\ \A p \in SessionPasswords :
            (unlock(p) /\ last'.res \in {"NoActiveSession", "InvalidCredential"})
                => UNCHANGED <<sessionVars, timers>>]_vars

\* C38 witness: a login with a wrong secret failed while a user was
\* authenticated, time had passed since the last activity and both timers were
\* scheduled; the user is still authenticated and both timers are scheduled.
C38_Witness ==
    /\ last.op = "login"
    /\ last.res = "InvalidCredential"
    /\ SessionState = "Authenticated"
    /\ lastActivity < now
    /\ \E t \in timers : t.kind = "autoLock" /\ t.id = lockTimer
    /\ \E t \in timers : t.kind = "clipboard" /\ t.id = clipboardTimer

\* C39: in every reachable state an inactivity-check timer is scheduled, and
\* the session holds its handle, if and only if the authenticated flag is set.
C39_TimerIffAuthenticated ==
    /\ isAuthenticated <=> AutoLockTimers # {}
    /\ isAuthenticated <=> lockTimer # NoTimer
    /\ \A t \in AutoLockTimers : t.id = lockTimer

\* C39 witness: a session that was locked by an inactivity check, unlocked, had
\* its settings updated and is authenticated with its timer scheduled.
C39_Witness ==
    /\ dispatched > 0
    /\ last.op = "updateSettings"
    /\ last.res = "ok"
    /\ isAuthenticated
    /\ \E t \in AutoLockTimers : t.id = lockTimer

\* C40: in every reachable state of the recovery manager the attempt counter
\* is between 0 and maxAttempts, the lockout is active if and only if the
\* counter equals maxAttempts, and an active lockout implies a chain exists.
C40_CounterAndLockout ==
    /\ attempts \in 0..maxAttempts
    /\ locked <=> attempts = maxAttempts
    /\ locked => chain # <<>>

\* C40 witness: a lockout is active with the counter at maxAttempts and a
\* chain in place, while the timer of an earlier, superseded lockout is still
\* scheduled beside its own.
C40_Witness ==
    /\ locked
    /\ attempts = maxAttempts
    /\ chain # <<>>
    /\ Cardinality({t \in timers : t.kind = "lockout"}) = 2

====
